---- MODULE Spec2Model ----
(***************************************************************************)
(* A model of sync-rs (src/main.rs): the path mapper, the endpoint and     *)
(* invocation builders, the tree renderer, the remote path quoting, the    *)
(* progress interpreter, the summary and the transfer orchestrator.        *)
(*                                                                         *)
(* Text is modelled as a sequence of one-character strings, so that the    *)
(* string and path functions of the program are computed character by      *)
(* character as the code computes them.  rsync options, which the          *)
(* program never takes apart, are whole TLA+ strings.                      *)
(***************************************************************************)
EXTENDS Integers, Sequences, FiniteSets, TLC

VARIABLES pathSt, epSt, treeSt

\* The state of the remote path quoting, of the interpreter of the
\* diagnostics channel and of the summary, each run on its own.
VARIABLES quoteSt, progSt, sumSt

\* The state of one run of the program (main and what it calls).
VARIABLES
    args,           \* the parsed command line (struct Args)
    env,            \* what the run finds: home, cwd, ssh config, the local file type
    pc,             \* where the main thread is
    error,          \* the error main returns, if any
    host, local_path, remote_path, is_file,    \* locals of main, push and pull
    calls,          \* the external commands issued so far, in order
    created,        \* the local directories created with create_dir_all
    printed,        \* what the run has printed on its standard output
    child,          \* the spawned rsync of a real run, with the lines it has written
    stdoutPipe, stderrPipe,         \* the two captured channels of the child
    stdout_handle, stderr_handle,   \* the two reader threads
    overall, current,               \* the two progress indicators
    stats_lines     \* the shared stats accumulator

runVars ==
    <<args, env, pc, error, host, local_path, remote_path, is_file, calls,
      created, printed, child, stdoutPipe, stderrPipe, stdout_handle,
      stderr_handle, overall, current, stats_lines>>

\* Each component leaves the variables of the other components alone.
pathOnly == <<epSt, treeSt, quoteSt, progSt, sumSt, runVars>>
epOnly == <<pathSt, treeSt, quoteSt, progSt, sumSt, runVars>>
treeOnly == <<pathSt, epSt, quoteSt, progSt, sumSt, runVars>>
quoteOnly == <<pathSt, epSt, treeSt, progSt, sumSt, runVars>>
progOnly == <<pathSt, epSt, treeSt, quoteSt, sumSt, runVars>>
sumOnly == <<pathSt, epSt, treeSt, quoteSt, progSt, runVars>>
runOnly == <<pathSt, epSt, treeSt, quoteSt, progSt, sumSt>>

(***************************************************************************)
(* Bounds of the model.                                                    *)
(***************************************************************************)
MaxPathLen == 4
MaxLines == 3
MaxChildLines == 2
PipeCap == 1
MaxQuoteLen == 3
MaxTokenLen == 4
MaxStats == 2
MaxProgLines == 2

(***************************************************************************)
(* Option / Result values.                                                 *)
(***************************************************************************)
None == <<>>
Some(v) == <<v>>
IsSome(o) == o # <<>>
Unwrap(o) == o[1]

(***************************************************************************)
(* Generic text helpers (str::starts_with, str::split, trim_start_matches  *)
(* with a char pattern, [T]::join).                                        *)
(***************************************************************************)
StartsWith(s, p) == Len(s) >= Len(p) /\ SubSeq(s, 1, Len(p)) = p

Drop(s, n) == SubSeq(s, n + 1, Len(s))

RECURSIVE TrimStartChar(_, _)
TrimStartChar(s, c) ==
    IF s # <<>> /\ s[1] = c THEN TrimStartChar(Tail(s), c) ELSE s

\* Index of the first occurrence of character c in s, 0 when there is none.
FindChar(s, c) ==
    IF \E i \in 1..Len(s) : s[i] = c
    THEN CHOOSE i \in 1..Len(s) : s[i] = c /\ \A j \in 1..(i - 1) : s[j] # c
    ELSE 0

\* str::split(c): the fields between occurrences of c, empty fields included.
RECURSIVE SplitChar(_, _)
SplitChar(s, c) ==
    LET i == FindChar(s, c)
    IN  IF i = 0 THEN <<s>>
        ELSE <<SubSeq(s, 1, i - 1)>> \o SplitChar(Drop(s, i), c)

\* The parts joined with the separator text sep between them.
RECURSIVE JoinWith(_, _)
JoinWith(parts, sep) ==
    IF parts = <<>> THEN <<>>
    ELSE IF Len(parts) = 1 THEN parts[1]
    ELSE parts[1] \o sep \o JoinWith(Tail(parts), sep)

(***************************************************************************)
(* std::path on Unix, as far as the program uses it.                       *)
(* A component is the text of its as_os_str(): RootDir is "/", CurDir is   *)
(* ".", ParentDir is "..", and a Normal component is its name.             *)
(***************************************************************************)
RootDir == <<"/">>
CurDir == <<".">>
ParentDir == <<".", ".">>

HasRoot(path) == path # <<>> /\ path[1] = "/"

\* Path::components(): repeated separators and trailing separators are
\* ignored, and "." is dropped except as the first component of a relative
\* path.
RECURSIVE KeepComponents(_, _)
KeepComponents(toks, first) ==
    IF toks = <<>> THEN <<>>
    ELSE IF toks[1] = <<>> THEN KeepComponents(Tail(toks), first)
    ELSE IF toks[1] = CurDir /\ ~first THEN KeepComponents(Tail(toks), FALSE)
    ELSE <<toks[1]>> \o KeepComponents(Tail(toks), FALSE)

Components(path) ==
    IF HasRoot(path)
    THEN <<RootDir>> \o KeepComponents(SplitChar(path, "/"), FALSE)
    ELSE KeepComponents(SplitChar(path, "/"), TRUE)

\* The path text that a run of components of a path denotes.
FromComponents(comps) ==
    IF comps # <<>> /\ comps[1] = RootDir
    THEN RootDir \o JoinWith(Tail(comps), <<"/">>)
    ELSE JoinWith(comps, <<"/">>)

\* PathBuf::push: an absolute argument replaces the buffer; otherwise a
\* separator is added when the buffer does not end in one (and is not
\* empty), then the argument is appended, even when it is empty.
PathPush(self, path) ==
    IF HasRoot(path) THEN path
    ELSE IF self # <<>> /\ self[Len(self)] # "/" THEN self \o <<"/">> \o path
    ELSE self \o path

\* Path::parent(): None for the root and for the empty path.
PathParent(path) ==
    LET c == Components(path)
    IN  IF c = <<>> \/ c[Len(c)] = RootDir THEN None
        ELSE Some(FromComponents(SubSeq(c, 1, Len(c) - 1)))

\* A pop that also removes the root (used to test the claims about "..").
PathPopPastRoot(self) ==
    LET c == Components(self)
    IN  IF c = <<>> THEN self ELSE FromComponents(SubSeq(c, 1, Len(c) - 1))

\* PathBuf::pop: truncates to the parent; does nothing when there is none.
PathPop(self) ==
    IF IsSome(PathParent(self)) THEN Unwrap(PathParent(self)) ELSE self

\* Path::strip_prefix: component-wise; the remainder is a relative path.
StripPrefix(path, base) ==
    LET pcomps == Components(path)
        bcomps == Components(base)
    IN  IF Len(bcomps) <= Len(pcomps) /\ SubSeq(pcomps, 1, Len(bcomps)) = bcomps
        THEN Some(JoinWith(SubSeq(pcomps, Len(bcomps) + 1, Len(pcomps)), <<"/">>))
        ELSE None

(***************************************************************************)
(* PathMapper: expand_path, normalize_path, clean_path, map_to_remote.     *)
(* A Result is [ok |-> value] or [err |-> message].                        *)
(***************************************************************************)
Ok(v) == [ok |-> v]
Err(m) == [err |-> m]
IsOk(r) == "ok" \in DOMAIN r

\* expand_path that pushes the rest of the path with its leading separator.
expand_path_keep_slash(raw, home) ==
    IF raw # <<>> /\ raw[1] = "~"
    THEN IF ~IsSome(home) THEN Err("unable to resolve home dir")
         ELSE Ok(PathPush(Unwrap(home), TrimStartChar(raw, "~")))
    ELSE Ok(raw)

\* home is dirs::home_dir(): None or Some(path).
expand_path(raw, home) ==
    IF raw # <<>> /\ raw[1] = "~"
    THEN IF ~IsSome(home) THEN Err("unable to resolve home dir")
         ELSE Ok(PathPush(Unwrap(home),
                          TrimStartChar(TrimStartChar(raw, "~"), "/")))
    ELSE Ok(raw)

CleanStep(out, component) ==
    IF component = ParentDir THEN PathPop(out)
    ELSE IF component = CurDir THEN out
    ELSE PathPush(out, component)

RECURSIVE CleanFrom(_, _)
CleanFrom(comps, out) ==
    IF comps = <<>> THEN out
    ELSE CleanFrom(Tail(comps), CleanStep(out, comps[1]))

clean_path(path) == CleanFrom(Components(path), <<>>)

\* The absolute path normalize_path hands to clean_path (its local p).
\* cwd is std::env::current_dir(): None (an error) or Some(path).
absolute_path(path, cwd) ==
    IF ~HasRoot(path)
    THEN IF ~IsSome(cwd) THEN Err("current_dir")
         ELSE Ok(PathPush(Unwrap(cwd), path))
    ELSE Ok(path)

normalize_path(path, cwd) ==
    LET p == absolute_path(path, cwd)
    IN  IF IsOk(p) THEN Ok(clean_path(p.ok)) ELSE p

map_to_remote(local, home) ==
    LET rel == StripPrefix(local, home)
    IN  IF IsSome(rel) THEN PathPush(<<"~">>, Unwrap(rel)) ELSE local

(***************************************************************************)
(* The inputs of the path mapper.                                          *)
(***************************************************************************)
PathChars == {"/", ".", "~", "a", "b"}

TextsUpTo(chars, n) == UNION {[1..k -> chars] : k \in 0..n}

\* "/a/../../b", the example of popping past the root.
PopPastRootExample == <<"/", "a", "/", ".", ".", "/", ".", ".", "/", "b">>

RawPaths == TextsUpTo(PathChars, MaxPathLen) \cup {PopPastRootExample}

HomeDirs == {None, Some(<<"/">>), Some(<<"/", "a">>), Some(<<"/", "a", "/", "b">>)}

WorkDirs == {None, Some(<<"/", "a">>), Some(<<"/", "b">>)}

(***************************************************************************)
(* The path mapping of main (lines 63-67), one step per call.              *)
(***************************************************************************)
PathInit ==
    \E raw \in RawPaths, home \in HomeDirs, cwd \in WorkDirs :
        pathSt = [pc |-> "expand", raw |-> raw, home |-> home, cwd |-> cwd,
                  expanded |-> <<>>, absolute |-> <<>>, local |-> <<>>,
                  remote |-> <<>>]

PathExpand ==
    /\ pathSt.pc = "expand"
    /\ UNCHANGED pathOnly
    /\ LET r == expand_path(pathSt.raw, pathSt.home)
       IN  pathSt' = IF IsOk(r)
                     THEN [pathSt EXCEPT !.pc = "normalize", !.expanded = r.ok]
                     ELSE [pathSt EXCEPT !.pc = "error"]

PathNormalize ==
    /\ pathSt.pc = "normalize"
    /\ UNCHANGED pathOnly
    /\ LET r == normalize_path(pathSt.expanded, pathSt.cwd)
       IN  pathSt' = IF IsOk(r)
                     THEN [pathSt EXCEPT !.pc = "home", !.local = r.ok,
                              !.absolute = absolute_path(pathSt.expanded, pathSt.cwd).ok]
                     ELSE [pathSt EXCEPT !.pc = "error"]

PathMapToRemote ==
    /\ pathSt.pc = "home"
    /\ UNCHANGED pathOnly
    /\ pathSt' = IF IsSome(pathSt.home)
                 THEN [pathSt EXCEPT !.pc = "mapped",
                          !.remote = map_to_remote(pathSt.local, Unwrap(pathSt.home))]
                 ELSE [pathSt EXCEPT !.pc = "error"]

PathNext == PathExpand \/ PathNormalize \/ PathMapToRemote

(***************************************************************************)
(* EndpointBuilder: sync_endpoints.                                        *)
(***************************************************************************)
\* sync_endpoints that never swaps the pair for a pull.
sync_endpoints_no_swap(h, lpath, rpath, file, pulling) ==
    LET local == IF file THEN lpath ELSE lpath \o <<"/">>
        remote == IF file THEN rpath ELSE rpath \o <<"/">>
    IN  <<local, h \o <<":">> \o remote>>

\* The parameters are host, local_path, remote_path, is_file, pulling.
sync_endpoints(h, lpath, rpath, file, pulling) ==
    LET local == IF file THEN lpath ELSE lpath \o <<"/">>
        remote == IF file THEN rpath ELSE rpath \o <<"/">>
        remote2 == h \o <<":">> \o remote
    IN  IF pulling THEN <<remote2, local>> ELSE <<local, remote2>>

\* The inputs of the endpoint builder; the first of each is the example
\* ("h", "/local/x", "~/x").
EpHosts == {<<"h">>, <<"u", "@", "h">>}
EpLocals == {<<"/", "l", "o", "c", "a", "l", "/", "x">>, <<"/">>, <<"/", "x">>,
             <<"/", "x", "/", "y">>}
EpRemotes == {<<"~", "/", "x">>, <<"~", "/">>, <<"~">>, <<"/", "x">>,
              <<"/", "x", "/", "y">>}

EpInit ==
    \E h \in EpHosts, local \in EpLocals, remote \in EpRemotes,
       file \in BOOLEAN, pulling \in BOOLEAN :
        epSt = [pc |-> "build", host |-> h, local_path |-> local,
                remote_path |-> remote, is_file |-> file,
                pulling |-> pulling, src |-> <<>>, dst |-> <<>>]

EpBuild ==
    /\ epSt.pc = "build"
    /\ UNCHANGED epOnly
    /\ LET r == sync_endpoints(epSt.host, epSt.local_path, epSt.remote_path,
                               epSt.is_file, epSt.pulling)
       IN  epSt' = [epSt EXCEPT !.pc = "built", !.src = r[1], !.dst = r[2]]

EpNext == EpBuild

(***************************************************************************)
(* TreeRenderer: render_tree, insert_path, render_node.                    *)
(* A TreeNode is its children map: a sequence of <<name, node>> entries    *)
(* in the order the BTreeMap iterates them.                                *)
(***************************************************************************)
\* The characters of the model in the order of their byte values.
ByteOrder ==
    <<"\n", " ", "$", "%", "'", "+", ",", "-", ".", "/",
      "0", "1", "2", "3", "4", "5", "6", "7", "8", "9", ":", "@",
      "D", "S", "_",
      "a", "b", "c", "d", "e", "f", "g", "h", "i", "j", "k", "l", "m", "n",
      "o", "p", "q", "r", "s", "t", "u", "v", "w", "x", "y", "z", "|", "~">>

ByteRank(c) == CHOOSE i \in 1..Len(ByteOrder) : ByteOrder[i] = c

\* Ord for str: lexicographic by bytes.
RECURSIVE TextLess(_, _)
TextLess(a, b) ==
    IF b = <<>> THEN FALSE
    ELSE IF a = <<>> THEN TRUE
    ELSE IF a[1] = b[1] THEN TextLess(Tail(a), Tail(b))
    ELSE ByteRank(a[1]) < ByteRank(b[1])

\* Position of key name in a children map, 0 when it has no such key.
MapFind(children, name) ==
    IF \E i \in 1..Len(children) : children[i][1] = name
    THEN CHOOSE i \in 1..Len(children) : children[i][1] = name
    ELSE 0

\* An insert that appends the entry, as a Vec of entries would.
MapInsertAtEnd(children, name, node) == Append(children, <<name, node>>)

\* BTreeMap insert of a new key: the entry goes to its place in key order.
MapInsert(children, name, node) ==
    LET k == Cardinality({i \in 1..Len(children) : TextLess(children[i][1], name)})
    IN  SubSeq(children, 1, k) \o << <<name, node>> >>
            \o SubSeq(children, k + 1, Len(children))

\* insert_path below one node, parts being the fields of path.split('/').
RECURSIVE InsertParts(_, _)
InsertParts(children, parts) ==
    IF parts = <<>> THEN children
    ELSE IF parts[1] = <<>> THEN InsertParts(children, Tail(parts))
    ELSE LET i == MapFind(children, parts[1])
         IN  IF i # 0
             THEN [children EXCEPT
                      ![i] = <<parts[1], InsertParts(children[i][2], Tail(parts))>>]
             ELSE MapInsert(children, parts[1], InsertParts(<<>>, Tail(parts)))

insert_path(root, path) == InsertParts(root, SplitChar(path, "/"))

\* A strip of one leading "./" only, as str::strip_prefix would do.
TrimStartDotSlashOnce(s) == IF StartsWith(s, <<".", "/">>) THEN Drop(s, 2) ELSE s

\* str::trim_start_matches("./"): every leading repetition is removed.
RECURSIVE TrimStartDotSlash(_)
TrimStartDotSlash(s) ==
    IF StartsWith(s, <<".", "/">>) THEN TrimStartDotSlash(Drop(s, 2)) ELSE s

IsBlank(line) == \A i \in 1..Len(line) : line[i] \in {" ", "\n"}

\* str::lines(): split at "\n", a final empty piece is not a line.
TextLines(text) ==
    LET f == SplitChar(text, "\n")
    IN  IF f[Len(f)] = <<>> THEN SubSeq(f, 1, Len(f) - 1) ELSE f

\* One iteration of the loop of render_tree (lines 526-539).
TreeInsertLine(root, line) ==
    IF IsBlank(line) THEN root
    ELSE LET parts == SplitChar(line, "|")
         IN  IF Len(parts) < 2 THEN root
             ELSE LET item == TrimStartDotSlash(parts[2])
                  IN  IF item = <<>> \/ item[1] = "." THEN root
                      ELSE insert_path(root, item)

RECURSIVE RenderChildren(_, _)
\* A render_node that hands its own prefix down to the children.
render_node_flat(name, node, prefix, last) ==
    LET branch == IF last THEN <<"+", "-", "-">> ELSE <<"|", "-", "-">>
    IN  <<prefix \o branch \o <<" ">> \o name>> \o RenderChildren(node, prefix)

\* render_node: the lines of one node and of the nodes below it.
render_node(name, node, prefix, last) ==
    LET branch == IF last THEN <<"+", "-", "-">> ELSE <<"|", "-", "-">>
        next_prefix == IF last THEN prefix \o <<" ", " ", " ">>
                       ELSE prefix \o <<"|", " ", " ">>
    IN  <<prefix \o branch \o <<" ">> \o name>> \o RenderChildren(node, next_prefix)

RECURSIVE RenderFrom(_, _, _)
RenderFrom(children, i, prefix) ==
    IF i > Len(children) THEN <<>>
    ELSE render_node(children[i][1], children[i][2], prefix, i = Len(children))
            \o RenderFrom(children, i + 1, prefix)

RenderChildren(children, prefix) == RenderFrom(children, 1, prefix)

\* Lines 541-546 of render_tree.
RenderRoot(root) == JoinWith(RenderChildren(root, <<>>), <<"\n">>)

RECURSIVE TreeInsertLines(_, _)
TreeInsertLines(root, lines) ==
    IF lines = <<>> THEN root
    ELSE TreeInsertLines(TreeInsertLine(root, lines[1]), Tail(lines))

render_tree(output) == RenderRoot(TreeInsertLines(<<>>, TextLines(output)))

\* The lines of itemized output the renderer is fed.
TreeLines ==
    { <<"f", "|", "b", "|", "1">>,
      <<"d", "|", "a", "/", "|", "0">>,
      <<"f", "|", "a", "/", "b", "|", "2">>,
      <<"f", "|", "a", "/", "a", "|", "1">>,
      <<"f", "|", ".", "/", "c", "/", "a", "|", "1">>,
      <<"f", "|", ".", "h", "|", "1">>,
      <<"x">>,
      <<"f", "|", ".", "D", "S", "_", "S", "t", "o", "r", "e", "|", "9">>,
      <<"d", "|", ".", "/", "|", "0">>,
      <<"f", "|", ".", "/", ".", "/", "b", "|", "1">>,
      <<"d", "|", "/", "|", "0">>,
      <<" ">> }

RECURSIVE Concat(_)
Concat(parts) == IF parts = <<>> THEN <<>> ELSE parts[1] \o Concat(Tail(parts))

\* The text of the given lines, each ended by a newline.
TextOf(lines) == Concat([i \in 1..Len(lines) |-> lines[i] \o <<"\n">>])

\* The itemized output of the test dry_run_parses_tree_and_stats.
TreeExample ==
    << <<"f", "+", "+", "+", "+", "+", "+", "+", "+", "+", "|", "f", "o", "o", ".", "t", "x", "t", "|", "1", "2">>,
       <<"d", "+", "+", "+", "+", "+", "+", "+", "+", "+", "|", "d", "i", "r", "/", "|", "0">>,
       <<"f", "+", "+", "+", "+", "+", "+", "+", "+", "+", "|", "d", "i", "r", "/", "b", "a", "r", ".", "t", "x", "t", "|", "2", "4">> >>

TreeInit ==
    \E ls \in UNION {[1..k -> TreeLines] : k \in 0..MaxLines} \cup {TreeExample} :
        treeSt = [pc |-> "lines", output |-> TextOf(ls),
                  rest |-> TextLines(TextOf(ls)), root |-> <<>>, tree |-> <<>>]

\* The loop of render_tree takes the next line.
TreeLine ==
    /\ treeSt.pc = "lines"
    /\ UNCHANGED treeOnly
    /\ treeSt.rest # <<>>
    /\ treeSt' = [treeSt EXCEPT !.rest = Tail(treeSt.rest),
                     !.root = TreeInsertLine(treeSt.root, treeSt.rest[1])]

\* After the loop the tree is rendered and joined.
TreeRender ==
    /\ treeSt.pc = "lines"
    /\ UNCHANGED treeOnly
    /\ treeSt.rest = <<>>
    /\ treeSt' = [treeSt EXCEPT !.pc = "done", !.tree = RenderRoot(treeSt.root)]

TreeNext == TreeLine \/ TreeRender

(***************************************************************************)
(* Remote path quoting: shell_escape, shell_escape_double,                 *)
(* remote_shell_path; parent_of_remote.                                    *)
(***************************************************************************)
RECURSIVE shell_escape_body(_)
shell_escape_body(value) ==
    IF value = <<>> THEN <<>>
    ELSE (IF value[1] = "'" THEN <<"'", "\\", "'", "'">> ELSE <<value[1]>>)
            \o shell_escape_body(Tail(value))

shell_escape(value) == <<"'">> \o shell_escape_body(value) \o <<"'">>

\* The backquote character, which a TLA+ string cannot hold.
Backquote == "backquote"

RECURSIVE shell_escape_double(_)
\* An escape that leaves the dollar sign alone.
shell_escape_double_no_dollar(value) ==
    IF value = <<>> THEN <<>>
    ELSE (IF value[1] \in {"\\", "\"", Backquote}
          THEN <<"\\", value[1]>> ELSE <<value[1]>>)
            \o shell_escape_double(Tail(value))

shell_escape_double(value) ==
    IF value = <<>> THEN <<>>
    ELSE (IF value[1] \in {"\\", "\"", "$", Backquote}
          THEN <<"\\", value[1]>> ELSE <<value[1]>>)
            \o shell_escape_double(Tail(value))

remote_shell_path(path) ==
    IF path = <<"~">> THEN <<"\"", "$", "H", "O", "M", "E", "\"">>
    ELSE IF StartsWith(path, <<"~", "/">>)
    THEN <<"\"", "$", "H", "O", "M", "E", "/">> \o shell_escape_double(Drop(path, 2)) \o <<"\"">>
    ELSE shell_escape(path)

\* The paths handed to remote_shell_path: the two of the documentation,
\* and every short text of the characters the quoting treats apart.
QuoteChars == {"~", "/", "'", "\"", "$", "\\", Backquote, "a", " "}
QuoteExamples ==
    { <<"~", "/", "a", " ", "b">>,
      <<"/", "t", "m", "p", "/", "o", "'", "k">> }
QuotePaths == TextsUpTo(QuoteChars, MaxQuoteLen) \cup QuoteExamples

QuoteInit == \E path \in QuotePaths : quoteSt = [pc |-> "path", path |-> path]

\* The call of remote_shell_path.
QuotePath ==
    /\ quoteSt.pc = "path"
    /\ UNCHANGED quoteOnly
    /\ quoteSt' = [pc |-> "quoted", path |-> quoteSt.path,
                   quoted |-> remote_shell_path(quoteSt.path)]

QuoteNext == QuotePath

parent_of_remote(rpath) ==
    IF IsSome(PathParent(rpath)) THEN Unwrap(PathParent(rpath))
    ELSE rpath

(***************************************************************************)
(* InvocationBuilder: ssh_args, base_rsync_args and the arguments          *)
(* run_dry_run adds.  Options are whole strings.                           *)
(***************************************************************************)
ssh_args ==
    <<"-o", "ControlMaster=auto", "-o", "ControlPersist=60s",
      "-o", "ControlPath=~/.ssh/cm-%r@%h:%p">>

RECURSIVE JoinStrings(_, _)
JoinStrings(parts, sep) ==
    IF parts = <<>> THEN ""
    ELSE IF Len(parts) = 1 THEN parts[1]
    ELSE parts[1] \o sep \o JoinStrings(Tail(parts), sep)

\* base_rsync_args that adds the real-run options to every invocation.
base_rsync_args_always_real(no_perms, dry_run) ==
    <<"-avz">>
    \o <<"-P", "--partial", "--inplace", "--info=progress2">>
    \o <<"-e", "ssh " \o JoinStrings(ssh_args, " "), "--stats">>
    \o <<"--out-format=%n">>
    \o <<"--exclude=.git/", "--exclude=node_modules/", "--exclude=target/",
         "--exclude=.DS_Store">>
    \o (IF no_perms THEN <<"--no-perms">> ELSE <<>>)

base_rsync_args(no_perms, dry_run) ==
    <<"-avz">>
    \o (IF ~dry_run THEN <<"-P", "--partial", "--inplace", "--info=progress2">>
        ELSE <<>>)
    \o <<"-e", "ssh " \o JoinStrings(ssh_args, " "), "--stats">>
    \o (IF ~dry_run THEN <<"--out-format=%n">> ELSE <<>>)
    \o <<"--exclude=.git/", "--exclude=node_modules/", "--exclude=target/",
         "--exclude=.DS_Store">>
    \o (IF no_perms THEN <<"--no-perms">> ELSE <<>>)

\* cmd_args of run_dry_run before the endpoints are pushed (lines 284-287).
dry_run_args(no_perms) ==
    base_rsync_args(no_perms, TRUE)
    \o <<"--dry-run", "--itemize-changes", "--out-format=%i|%n|%l">>

(***************************************************************************)
(* ProgressInterpreter and summary: parse_progress_percent, parse_bytes,   *)
(* print_summary.                                                          *)
(***************************************************************************)
Digits == <<"0", "1", "2", "3", "4", "5", "6", "7", "8", "9">>
IsDigit(c) == \E i \in 1..10 : Digits[i] = c
DigitValue(c) == (CHOOSE i \in 1..10 : Digits[i] = c) - 1

RECURSIVE DigitsValue(_, _)
DigitsValue(s, acc) ==
    IF s = <<>> THEN acc ELSE DigitsValue(Tail(s), acc * 10 + DigitValue(s[1]))

\* str::parse for an unsigned integer type whose largest value is max: an
\* optional "+", then one or more digits, no overflow.  Texts of more than
\* nine digits are outside the model.
ParseUnsigned(s, max) ==
    LET d == IF s # <<>> /\ s[1] = "+" THEN Tail(s) ELSE s
    IN  IF d = <<>> \/ Len(d) > 9 \/ \E i \in 1..Len(d) : ~IsDigit(d[i])
        THEN None
        ELSE IF DigitsValue(d, 0) > max THEN None
        ELSE Some(DigitsValue(d, 0))

U8Max == 255
\* Larger than every number the model parses as u64.
U64Large == 999999999

\* str::split_whitespace, the space being the only whitespace of the model:
\* the tokens of s as the pairs <<first, last>> of the indexes of the maximal
\* runs of characters other than the space.
SplitWhitespace(s) ==
    {<<first, CHOOSE last \in first..Len(s) :
                  /\ \A k \in first..last : s[k] # " "
                  /\ (last = Len(s) \/ s[last + 1] = " ")>> :
        first \in {i \in 1..Len(s) : s[i] # " " /\ (i = 1 \/ s[i - 1] = " ")}}

\* str::trim.
RECURSIVE TrimEnd(_)
TrimEnd(s) ==
    IF s # <<>> /\ s[Len(s)] \in {" ", "\n"}
    THEN TrimEnd(SubSeq(s, 1, Len(s) - 1)) ELSE s

RECURSIVE TrimStart(_)
TrimStart(s) == IF s # <<>> /\ s[1] \in {" ", "\n"} THEN TrimStart(Tail(s)) ELSE s

Trim(s) == TrimEnd(TrimStart(s))

\* str::find of a pattern: the index before the first match (0-based), or None.
FindText(s, pat) ==
    LET at == {i \in 0..(Len(s) - Len(pat)) : SubSeq(s, i + 1, i + Len(pat)) = pat}
    IN  IF at = {} THEN None
        ELSE Some(CHOOSE i \in at : \A j \in at : i <= j)

\* token.strip_suffix('%') and num.parse::<u8>() (lines 513-514): the value,
\* or None when the token does not end in "%" or what precedes is not a u8.
PercentOf(token) ==
    IF token # <<>> /\ token[Len(token)] = "%"
    THEN ParseUnsigned(SubSeq(token, 1, Len(token) - 1), U8Max)
    ELSE None

\* Every token of the line, as the index of its first character and its
\* value.
PercentTokens(line) ==
    {<<sp[1], PercentOf(SubSeq(line, sp[1], sp[2]))>> : sp \in SplitWhitespace(line)}

\* A loop without the break of line 516: the last token that has a value
\* gives it.
LastPercent(line) ==
    CHOOSE pct \in
        {IF \E t \in tokens : IsSome(t[2])
         THEN (CHOOSE t \in tokens :
                  /\ IsSome(t[2])
                  /\ \A o \in tokens : IsSome(o[2]) => t[1] >= o[1])[2]
         ELSE None : tokens \in {PercentTokens(line)}} : TRUE

\* The loop of lines 512-519: the value of the first token that has one.
FirstPercent(line) ==
    CHOOSE pct \in
        {IF \E t \in tokens : IsSome(t[2])
         THEN (CHOOSE t \in tokens :
                  /\ IsSome(t[2])
                  /\ \A o \in tokens : IsSome(o[2]) => t[1] <= o[1])[2]
         ELSE None : tokens \in {PercentTokens(line)}} : TRUE

parse_progress_percent(line) ==
    IF FindChar(line, "%") = 0 THEN None
    ELSE FirstPercent(line)

RECURSIVE RemoveChar(_, _)
RemoveChar(s, c) ==
    IF s = <<>> THEN <<>>
    ELSE (IF s[1] = c THEN <<>> ELSE <<s[1]>>) \o RemoveChar(Tail(s), c)

\* A parse that keeps the thousands separators.
parse_bytes_keep_commas(s) == ParseUnsigned(s, U64Large)

\* s.replace(',', "").parse::<u64>() (line 418); the text and what is left of
\* it without the separators are each bound once.
parse_bytes(s) ==
    CHOOSE value \in {ParseUnsigned(digits, U64Large) :
                         digits \in {RemoveChar(text, ",") : text \in {s}}} : TRUE

SentPrefix == <<"s", "e", "n", "t", " ">>
TotalPrefix == <<"t", "o", "t", "a", "l", " ", "s", "i", "z", "e", " ", "i", "s", " ">>
BytesMarker == <<" ", "b", "y", "t", "e", "s">>
TransferredPrefix == <<"T", "o", "t", "a", "l", " ", "t", "r", "a", "n", "s", "f", "e", "r", "r", "e", "d", " ", "f", "i", "l", "e", " ", "s", "i", "z", "e", ":">>

\* An accumulator that takes the lines of the first prefix only.
IsSentLine(line) == StartsWith(line, SentPrefix)

\* The test of line 373.
IsStatsLine(line) == StartsWith(line, SentPrefix) \/ StartsWith(line, TotalPrefix)

\* One iteration of the loop of print_summary (lines 425-445); sum is
\* [sent_bytes, total_bytes].
SummaryStep(sum, rawline) ==
    LET line == Trim(rawline)
        s1 == IF StartsWith(line, SentPrefix)
              THEN LET bytes_str == Drop(line, Len(SentPrefix))
                       end == FindText(bytes_str, BytesMarker)
                   IN  IF IsSome(end)
                       THEN [sum EXCEPT !.sent_bytes =
                                parse_bytes(SubSeq(bytes_str, 1, Unwrap(end)))]
                       ELSE sum
              ELSE sum
    IN  IF StartsWith(line, TotalPrefix)
        THEN LET rest == Drop(line, Len(TotalPrefix))
                 end == FindText(rest, <<" ", " ">>)
             IN  IF IsSome(end)
                 THEN [s1 EXCEPT !.total_bytes =
                          parse_bytes(SubSeq(rest, 1, Unwrap(end)))]
                 ELSE [s1 EXCEPT !.total_bytes = parse_bytes(rest)]
        ELSE s1

\* A loop that takes the lines from the last to the first.
RECURSIVE SummaryFromLast(_, _)
SummaryFromLast(stats, sum) ==
    IF stats = <<>> THEN sum
    ELSE SummaryFromLast(SubSeq(stats, 1, Len(stats) - 1),
                         SummaryStep(sum, stats[Len(stats)]))

RECURSIVE SummaryFrom(_, _)
SummaryFrom(stats, sum) ==
    IF stats = <<>> THEN sum
    ELSE SummaryFrom(Tail(stats), SummaryStep(sum, stats[1]))

\* print_summary: the lines it prints, each with its label and, for a size,
\* the number of bytes; the printed text of a size is format_size of that
\* number, which the model does not spell out.
print_summary(stats) ==
    LET sum == SummaryFrom(stats, [sent_bytes |-> None, total_bytes |-> None])
    IN  <<[label |-> "Summary:", bytes |-> None]>>
        \o (IF IsSome(sum.sent_bytes)
            THEN <<[label |-> "  sent:", bytes |-> sum.sent_bytes]>> ELSE <<>>)
        \o (IF IsSome(sum.total_bytes)
            THEN <<[label |-> "  total size:", bytes |-> sum.total_bytes]>>
            ELSE <<>>)
        \o <<[label |-> "  duration:", bytes |-> None]>>

\* Lines the accumulator can hold: each starts with one of the two prefixes.
SummaryLines ==
    { <<"s", "e", "n", "t", " ", "2", ",", "3", "2", "7", " ", "b", "y", "t", "e", "s", " ", " ", "r", "e", "c", "e", "i", "v", "e", "d", " ", "2", "7", "4", " ", "b", "y", "t", "e", "s">>,
      <<"s", "e", "n", "t", " ", "9", " ", "b", "y", "t", "e", "s", " ", " ", "r", "e", "c", "e", "i", "v", "e", "d", " ", "1", " ", "b", "y", "t", "e", "s">>,
      <<"s", "e", "n", "t", " ", "x", " ", "b", "y", "t", "e", "s">>,
      <<"s", "e", "n", "t", " ", "5">>,
      <<"t", "o", "t", "a", "l", " ", "s", "i", "z", "e", " ", "i", "s", " ", "7", "0", "6", ",", "6", "1", "7", ",", "3", "8", "0", " ", " ", "s", "p", "e", "e", "d", "u", "p", " ", "i", "s", " ", "1">>,
      <<"t", "o", "t", "a", "l", " ", "s", "i", "z", "e", " ", "i", "s", " ", "7">>,
      <<"t", "o", "t", "a", "l", " ", "s", "i", "z", "e", " ", "i", "s", " ", "x", " ", " ", "y">> }

SumInit ==
    \E stats \in UNION {[1..k -> SummaryLines] : k \in 0..MaxStats} :
        sumSt = [pc |-> "stats", stats |-> stats]

\* The call of print_summary on the accumulated lines.
SumPrint ==
    /\ sumSt.pc = "stats"
    /\ UNCHANGED sumOnly
    /\ sumSt' = [pc |-> "printed", stats |-> sumSt.stats,
                 printed |-> print_summary(sumSt.stats)]

SumNext == SumPrint

(***************************************************************************)
(* The stderr reader's use of a line for the overall position (lines       *)
(* 369-372), on its own: the lines of a channel, one after the other.      *)
(***************************************************************************)
ProgChars == {"%", " ", "+", "-", "5", "x"}
ProgExamples ==
    { <<"2", "5", "5", "%">>,
      <<"2", "5", "6", "%">>,
      <<"1", "0", "0", "%">>,
      <<"3", "0", "0", "%", " ", "5", "%">>,
      <<"x", "%", " ", "5", "%", " ", "2", "%">>,
      <<" ", "1", ",", "0", "2", "4", " ", " ", "5", "0", "%", " ", " ", "1", "k", "B", "/", "s">> }
ProgTexts == UNION {[1..n -> ProgChars] : n \in 0..MaxTokenLen}

\* One line of any text of the alphabet, or up to MaxProgLines of the
\* examples; the indicator starts at position 0 (line 331).
ProgInit ==
    \E lines \in {<<t>> : t \in ProgTexts}
                 \cup UNION {[1..k -> ProgExamples] : k \in 0..MaxProgLines} :
        progSt = [pc |-> "lines", rest |-> lines, taken |-> <<>>,
                  before |-> 0, pos |-> 0]

\* Lines 370-372 for the next line of the channel.
ProgLine ==
    /\ progSt.pc = "lines" /\ progSt.rest # <<>>
    /\ UNCHANGED progOnly
    /\ \E percent \in {parse_progress_percent(Head(progSt.rest))} :
           progSt' = [pc |-> "lines", rest |-> Tail(progSt.rest),
                      taken |-> Append(progSt.taken, Head(progSt.rest)),
                      before |-> progSt.pos,
                      pos |-> IF IsSome(percent) THEN Unwrap(percent)
                              ELSE progSt.pos]

ProgNext == ProgLine

\* The first line of the captured diagnostics that starts with the
\* transferred-size prefix, trimmed (lines 301-305).
RECURSIVE FindTransferred(_)
FindTransferred(lines) ==
    IF lines = <<>> THEN None
    ELSE IF StartsWith(lines[1], TransferredPrefix) THEN Some(Trim(lines[1]))
    ELSE FindTransferred(Tail(lines))

(***************************************************************************)
(* TransferOrchestrator: main, push, pull, ensure_remote_parent,           *)
(* remote_is_file, run_dry_run, run_rsync.                                 *)
(***************************************************************************)
realVars ==
    <<child, stdoutPipe, stderrPipe, stdout_handle, stderr_handle, overall,
      current, stats_lines>>

mainLocals == <<host, local_path, remote_path, is_file>>

\* The inputs of a run.
HomeA == <<"/", "a">>
RunPaths == {<<"~", "/", "a">>, <<"b">>, <<"/">>}
RunHostArgs == {None, Some(<<"h">>)}
\* The result of read_ssh_hosts' reading of the config file: unreadable, or
\* the sorted, deduplicated host names of its Host lines (none when the
\* file is missing).
SshConfigs ==
    {Err("failed to read ssh config"), Ok(<<>>), Ok(<< <<"g">> >>)}

\* Exit statuses of an external command.
ExitCodes == {0, 1}
\* How running a command to completion can end (CommandRunner::status): the
\* exit status, or the failure to run it.
SpawnError == Err("failed to run")
StatusOutcomes == {Ok(c) : c \in ExitCodes} \cup {SpawnError}

\* What a captured dry run can give back: status, stdout, stderr.
DryStdouts ==
    { <<>>,
      TextOf(<< <<"f", "|", "b", "|", "1">>, <<"d", "|", "a", "/", "|", "0">>,
                <<"f", "|", "a", "/", "b", "|", "2">> >>) }
DryStderrs ==
    { TextOf(<< <<"x">> >>),
      TextOf(<< <<"x">>, <<"T", "o", "t", "a", "l", " ", "t", "r", "a", "n", "s", "f", "e", "r", "r", "e", "d", " ", "f", "i", "l", "e", " ", "s", "i", "z", "e", ":", " ", "3", "6", " ", "b", "y", "t", "e", "s">> >>) }

\* The lines the child of a real run can write on each channel.
StdoutLines == {<<" ">>, <<"a">>, <<"b">>}
StderrLines ==
    { <<"s", "e", "n", "t", " ", "1", ",", "0", "2", "4", " ", "b", "y", "t", "e", "s", " ", " ", "r", "e", "c", "e", "i", "v", "e", "d", " ", "9", " ", "b", "y", "t", "e", "s">>, <<"t", "o", "t", "a", "l", " ", "s", "i", "z", "e", " ", "i", "s", " ", "2", " ", " ", "s", "p", "e", "e", "d", "u", "p", " ", "i", "s", " ", "1">>, <<" ", "1", ",", "0", "2", "4", " ", " ", "5", "0", "%", " ", " ", "1", "k", "B", "/", "s">>, <<"x">> }

NoChild == [state |-> "none", written |-> 0, status |-> 0, out |-> <<>>, err |-> <<>>]
NoPipe == [buf |-> <<>>, closed |-> FALSE]
NoBar == [pos |-> 0, msg |-> <<>>, finished |-> FALSE]

RunInit ==
    /\ args \in [path : RunPaths, host : RunHostArgs, pull : BOOLEAN,
                 dry_run : BOOLEAN, no_perms : BOOLEAN]
    /\ env \in [home : {None, Some(HomeA)}, cwd : {None, Some(HomeA)},
                ssh_config : SshConfigs, local_is_file : BOOLEAN]
    \* What a run never reads is fixed: the ssh config when a host is given,
    \* the working directory for an absolute path, the local file type of a
    \* pull.
    /\ IsSome(args.host) => env.ssh_config = Ok(<<>>)
    /\ HasRoot(args.path) \/ args.path[1] = "~" => env.cwd = Some(HomeA)
    /\ args.pull => ~env.local_is_file
    /\ pc = "host"
    /\ error = None
    /\ host = <<>> /\ local_path = <<>> /\ remote_path = <<>> /\ is_file = FALSE
    /\ calls = <<>> /\ created = <<>> /\ printed = <<>>
    /\ child = NoChild
    /\ stdoutPipe = NoPipe /\ stderrPipe = NoPipe
    /\ stdout_handle = "none" /\ stderr_handle = "none"
    /\ overall = NoBar /\ current = NoBar
    /\ stats_lines = <<>>

\* A step that fails and is taken again.
FailAndRetry(msg) == pc' = pc /\ error' = Some(msg)

\* main returns the error.
Fail(msg) == pc' = "error" /\ error' = Some(msg)

\* Lines 58-61 with pick_host_from_ssh_config and the start of
\* read_ssh_hosts; selection 0 is the picker failing.
MainHost ==
    /\ pc = "host"
    /\ UNCHANGED runOnly
    /\ UNCHANGED <<args, env, local_path, remote_path, is_file, calls, created,
                   printed, realVars>>
    /\ IF IsSome(args.host)
       THEN host' = Unwrap(args.host) /\ pc' = "paths" /\ UNCHANGED error
       ELSE IF ~IsSome(env.home)
       THEN Fail("unable to resolve home dir") /\ UNCHANGED host
       ELSE IF ~IsOk(env.ssh_config)
       THEN Fail(env.ssh_config.err) /\ UNCHANGED host
       ELSE IF env.ssh_config.ok = <<>>
       THEN Fail("no hosts found in ~/.ssh/config and no host provided")
            /\ UNCHANGED host
       ELSE \E selection \in 0..Len(env.ssh_config.ok) :
                IF selection = 0
                THEN Fail("host selection failed") /\ UNCHANGED host
                ELSE /\ host' = env.ssh_config.ok[selection]
                     /\ pc' = "paths" /\ UNCHANGED error

\* A home lookup that falls back to the root directory.
resolve_home_or_root(home) == Ok(IF IsSome(home) THEN Unwrap(home) ELSE <<"/">>)

\* Line 65: dirs::home_dir().ok_or_else(...).
resolve_home(home) ==
    IF IsSome(home) THEN Ok(Unwrap(home)) ELSE Err("unable to resolve home dir")

\* Lines 63-73 up to the call of push or pull.
MainPaths ==
    /\ pc = "paths"
    /\ UNCHANGED runOnly
    /\ UNCHANGED <<args, env, host, is_file, calls, created, printed, realVars>>
    /\ LET expanded == expand_path(args.path, env.home)
           normal == IF IsOk(expanded) THEN normalize_path(expanded.ok, env.cwd)
                     ELSE expanded
       IN  IF ~IsOk(expanded)
           THEN Fail(expanded.err) /\ UNCHANGED <<local_path, remote_path>>
           ELSE IF ~IsOk(normal)
           THEN Fail(normal.err) /\ UNCHANGED <<local_path, remote_path>>
           ELSE IF ~IsOk(resolve_home(env.home))
           THEN Fail(resolve_home(env.home).err)
                /\ UNCHANGED <<local_path, remote_path>>
           ELSE /\ local_path' = normal.ok
                /\ remote_path' = map_to_remote(normal.ok, resolve_home(env.home).ok)
                /\ pc' = IF args.pull THEN "pull" ELSE "push"
                /\ UNCHANGED error

\* An external command as the run issues it, with how it ends.
SshCall(command, outcome) ==
    [program |-> "ssh", args |-> ssh_args, operands |-> <<host, command>>,
     outcome |-> outcome]

RsyncCall(options, file, outcome) ==
    [program |-> "rsync", args |-> options,
     operands |-> sync_endpoints(host, local_path, remote_path, file, args.pull),
     outcome |-> outcome]

\* The remote command of ensure_remote_parent (line 259).
MkdirPrefix == <<"m", "k", "d", "i", "r", " ", "-", "p", " ">>
MkdirCommand(remote_parent) == MkdirPrefix \o remote_shell_path(remote_parent)

\* The remote command of remote_is_file (line 236).
TestPrefix == <<"t", "e", "s", "t", " ", "-", "f", " ">>
TestCommand(path) == TestPrefix \o remote_shell_path(path)

\* ensure_remote_parent, given how the ssh command ended; a call of it
\* that skips the exit status would take every ending as success.
EnsureFailsIgnoringStatus(outcome) == ~IsOk(outcome)

EnsureFails(outcome) == ~IsOk(outcome) \/ outcome.ok # 0

\* A push that leaves the remote directory alone in a dry run.
PushDryRunSkipsMkdir ==
    /\ pc = "push"
    /\ UNCHANGED runOnly
    /\ UNCHANGED <<args, env, host, local_path, remote_path, created, printed,
                   realVars>>
    /\ is_file' = (env.local_is_file /\ local_path # <<"/">>)
    /\ IF args.dry_run
       THEN pc' = "transfer" /\ UNCHANGED <<calls, error>>
       ELSE \E outcome \in StatusOutcomes :
                /\ calls' = Append(calls,
                        SshCall(MkdirCommand(parent_of_remote(remote_path)), outcome))
                /\ IF EnsureFails(outcome)
                   THEN Fail(IF ~IsOk(outcome) THEN "failed to run ssh mkdir -p"
                             ELSE "failed to create remote directory")
                   ELSE pc' = "transfer" /\ UNCHANGED error

\* push, lines 179-186: the local file type, then ensure_remote_parent.
Push ==
    /\ pc = "push"
    /\ UNCHANGED runOnly
    /\ UNCHANGED <<args, env, host, local_path, remote_path, created, printed,
                   realVars>>
    /\ is_file' = (env.local_is_file /\ local_path # <<"/">>)
    /\ \E outcome \in StatusOutcomes :
           /\ calls' = Append(calls,
                   SshCall(MkdirCommand(parent_of_remote(remote_path)), outcome))
           /\ IF EnsureFails(outcome)
              THEN Fail(IF ~IsOk(outcome) THEN "failed to run ssh mkdir -p"
                        ELSE "failed to create remote directory")
              ELSE pc' = "transfer" /\ UNCHANGED error

\* A probe that takes the failure to run ssh for "is a file".
ProbeIsFileOnError(outcome) == ~IsOk(outcome) \/ outcome.ok = 0

\* remote_is_file(...).unwrap_or(false), given how the ssh command ended.
ProbeIsFile(outcome) == IsOk(outcome) /\ outcome.ok = 0

\* pull, line 207: the remote probe.
PullProbe ==
    /\ pc = "pull"
    /\ UNCHANGED runOnly
    /\ UNCHANGED <<args, env, host, local_path, remote_path, created, printed,
                   error, realVars>>
    /\ \E outcome \in StatusOutcomes :
           /\ calls' = Append(calls, SshCall(TestCommand(remote_path), outcome))
           /\ is_file' = ProbeIsFile(outcome)
    /\ pc' = "pull_parent"

\* pull, lines 208-219: the local parent and create_dir_all.
PullLocalParent ==
    /\ pc = "pull_parent"
    /\ UNCHANGED runOnly
    /\ UNCHANGED <<args, env, mainLocals, calls, printed, realVars>>
    /\ IF ~IsSome(PathParent(local_path))
       THEN Fail("unable to resolve local parent") /\ UNCHANGED created
       ELSE \E ok \in BOOLEAN :
                IF ok
                THEN /\ created' = Append(created, Unwrap(PathParent(local_path)))
                     /\ pc' = "transfer" /\ UNCHANGED error
                ELSE Fail("failed to create local parent") /\ UNCHANGED created

\* What the caller of run_dry_run prints for a successful dry run.
DryRunPrints(stdout, stderr) ==
    LET transferred_line == FindTransferred(TextLines(stderr))
    IN  <<[kind |-> "tree", text |-> render_tree(stdout)]>>
        \o (IF IsSome(transferred_line)
            THEN <<[kind |-> "size", text |-> Unwrap(transferred_line)]>>
            ELSE <<>>)

\* Line 294: the exit status of the dry run.
DryRunFails(status) == status # 0

\* run_dry_run and the printing of its summary (lines 188-194, 221-227,
\* 282-310).
DryRun ==
    /\ pc = "transfer" /\ args.dry_run
    /\ UNCHANGED runOnly
    /\ UNCHANGED <<args, env, mainLocals, created, realVars>>
    /\ \/ /\ calls' = Append(calls,
                      RsyncCall(dry_run_args(args.no_perms), is_file, SpawnError))
          /\ Fail("failed to run rsync --dry-run") /\ UNCHANGED printed
       \/ \E status \in ExitCodes, stdout \in DryStdouts, stderr \in DryStderrs :
              /\ calls' = Append(calls,
                      RsyncCall(dry_run_args(args.no_perms), is_file, Ok(status)))
              /\ IF DryRunFails(status)
                 THEN Fail("rsync dry run failed") /\ UNCHANGED printed
                 ELSE /\ printed' = printed \o DryRunPrints(stdout, stderr)
                      /\ pc' = "done" /\ UNCHANGED error

\* run_rsync, lines 320-381: the spawn, the two indicators, the accumulator
\* and the two reader threads.
RunSpawn ==
    /\ pc = "transfer" /\ ~args.dry_run
    /\ UNCHANGED runOnly
    /\ UNCHANGED <<args, env, mainLocals, created, printed>>
    /\ \/ /\ calls' = Append(calls,
                      RsyncCall(base_rsync_args(args.no_perms, FALSE), is_file,
                                SpawnError))
          /\ Fail("failed to spawn rsync") /\ UNCHANGED realVars
       \/ /\ \E status \in ExitCodes :
                 /\ calls' = Append(calls,
                         RsyncCall(base_rsync_args(args.no_perms, FALSE), is_file,
                                   Ok(status)))
                 /\ child' = [state |-> "running", written |-> 0,
                              status |-> status, out |-> <<>>, err |-> <<>>]
          /\ stdoutPipe' = NoPipe /\ stderrPipe' = NoPipe
          /\ stdout_handle' = "running" /\ stderr_handle' = "running"
          /\ overall' = [pos |-> 0, msg |-> <<"O", "v", "e", "r", "a", "l", "l">>, finished |-> FALSE]
          /\ current' = [pos |-> 0, msg |-> <<"W", "a", "i", "t", "i", "n", "g", " ", "f", "o", "r", " ", "f", "i", "l", "e", "s", ".", ".", ".">>, finished |-> FALSE]
          /\ stats_lines' = <<>>
          /\ pc' = "wait" /\ UNCHANGED error

\* The child writes a line on its standard output; it blocks while the pipe
\* is full.
ChildWriteStdout ==
    /\ child.state = "running"
    /\ UNCHANGED runOnly
    /\ child.written < MaxChildLines
    /\ Len(stdoutPipe.buf) < PipeCap
    /\ \E line \in StdoutLines :
           /\ stdoutPipe' = [stdoutPipe EXCEPT !.buf = Append(@, line)]
           /\ child' = [child EXCEPT !.written = @ + 1, !.out = Append(@, line)]
    /\ UNCHANGED <<args, env, pc, error, mainLocals, calls, created, printed,
                   stderrPipe, stdout_handle, stderr_handle, overall, current,
                   stats_lines>>

ChildWriteStderr ==
    /\ child.state = "running"
    /\ UNCHANGED runOnly
    /\ child.written < MaxChildLines
    /\ Len(stderrPipe.buf) < PipeCap
    /\ \E line \in StderrLines :
           /\ stderrPipe' = [stderrPipe EXCEPT !.buf = Append(@, line)]
           /\ child' = [child EXCEPT !.written = @ + 1, !.err = Append(@, line)]
    /\ UNCHANGED <<args, env, pc, error, mainLocals, calls, created, printed,
                   stdoutPipe, stdout_handle, stderr_handle, overall, current,
                   stats_lines>>

\* The child exits, which closes its ends of both pipes.
ChildExit ==
    /\ child.state = "running"
    /\ UNCHANGED runOnly
    /\ child' = [child EXCEPT !.state = "exited"]
    /\ stdoutPipe' = [stdoutPipe EXCEPT !.closed = TRUE]
    /\ stderrPipe' = [stderrPipe EXCEPT !.closed = TRUE]
    /\ UNCHANGED <<args, env, pc, error, mainLocals, calls, created, printed,
                   stdout_handle, stderr_handle, overall, current, stats_lines>>

\* The process of the run is alive: main has not returned.
Alive == pc \notin {"done", "error"}

\* Each reader runs on a thread of its own from its spawn (lines 355, 367)
\* to the end of its loop.
StdoutReaderRuns == stdout_handle = "running"

\* A stderr reader that starts once the stdout reader has ended.
StderrReaderRunsAfterStdout == stderr_handle = "running" /\ stdout_handle = "done"

StderrReaderRuns == stderr_handle = "running"

\* The stdout reader (lines 355-363) takes a line, or ends at end of stream.
StdoutReader ==
    /\ Alive /\ StdoutReaderRuns
    /\ UNCHANGED runOnly
    /\ IF stdoutPipe.buf # <<>>
       THEN /\ stdoutPipe' = [stdoutPipe EXCEPT !.buf = Tail(@)]
            /\ current' = IF Trim(Head(stdoutPipe.buf)) = <<>> THEN current
                          ELSE [current EXCEPT !.msg = Head(stdoutPipe.buf)]
            /\ UNCHANGED stdout_handle
       ELSE /\ stdoutPipe.closed
            /\ stdout_handle' = "done"
            /\ UNCHANGED <<stdoutPipe, current>>
    /\ UNCHANGED <<args, env, pc, error, mainLocals, calls, created, printed,
                   child, stderrPipe, stderr_handle, overall, stats_lines>>

\* The stderr reader (lines 367-379) takes a line, or ends at end of stream.
StderrReader ==
    /\ Alive /\ StderrReaderRuns
    /\ UNCHANGED runOnly
    /\ IF stderrPipe.buf # <<>>
       THEN /\ stderrPipe' = [stderrPipe EXCEPT !.buf = Tail(@)]
            /\ \E percent \in {parse_progress_percent(Head(stderrPipe.buf))} :
                   overall' = IF IsSome(percent)
                              THEN [overall EXCEPT !.pos = Unwrap(percent)]
                              ELSE overall
            /\ stats_lines' = IF IsStatsLine(Head(stderrPipe.buf))
                              THEN Append(stats_lines, Head(stderrPipe.buf))
                              ELSE stats_lines
            /\ UNCHANGED stderr_handle
       ELSE /\ stderrPipe.closed
            /\ stderr_handle' = "done"
            /\ UNCHANGED <<stderrPipe, overall, stats_lines>>
    /\ UNCHANGED <<args, env, pc, error, mainLocals, calls, created, printed,
                   child, stdoutPipe, stdout_handle, current>>

\* child.wait() (line 382): returns once the child has exited, or fails.
RunWait ==
    /\ pc = "wait"
    /\ UNCHANGED runOnly
    /\ \/ child.state = "exited" /\ pc' = "join_stdout" /\ UNCHANGED error
       \/ Fail("failed to wait on rsync")
    /\ UNCHANGED <<args, env, mainLocals, calls, created, printed, realVars>>

\* A join that returns while the thread still runs.
JoinReturnsAtOnce(handle) == TRUE

\* JoinHandle::join returns once the thread has ended.
JoinReturns(handle) == handle = "done"

\* stdout_handle.join() (line 385).
RunJoinStdout ==
    /\ pc = "join_stdout"
    /\ UNCHANGED runOnly
    /\ JoinReturns(stdout_handle)
    /\ pc' = "join_stderr"
    /\ UNCHANGED <<args, env, error, mainLocals, calls, created, printed,
                   realVars>>

\* stderr_handle.join() (line 386).
RunJoinStderr ==
    /\ pc = "join_stderr"
    /\ UNCHANGED runOnly
    /\ JoinReturns(stderr_handle)
    /\ pc' = "finish"
    /\ UNCHANGED <<args, env, error, mainLocals, calls, created, printed,
                   realVars>>

\* The length of the overall indicator (ProgressBar::new(100)).
OverallLen == 100

\* Lines 388-389: both indicators are finished; finishing an indicator that
\* has a length moves its position to the length.
RunFinish ==
    /\ pc = "finish"
    /\ UNCHANGED runOnly
    /\ overall' = [pos |-> OverallLen, msg |-> <<"O", "v", "e", "r", "a", "l", "l">>, finished |-> TRUE]
    /\ current' = [current EXCEPT !.msg = <<"D", "o", "n", "e">>, !.finished = TRUE]
    /\ pc' = "status"
    /\ UNCHANGED <<args, env, error, mainLocals, calls, created, printed,
                   child, stdoutPipe, stderrPipe, stdout_handle, stderr_handle,
                   stats_lines>>

\* A status check that lets every exit status through.
RealRunFailsNever(status) == FALSE

RealRunFails(status) == status # 0

\* Lines 391-398: the exit status, then the summary of the accumulator.
RunStatus ==
    /\ pc = "status"
    /\ UNCHANGED runOnly
    /\ IF RealRunFails(child.status)
       THEN Fail("rsync failed") /\ UNCHANGED printed
       ELSE /\ printed' = Append(printed, [kind |-> "summary",
                                           lines |-> print_summary(stats_lines)])
            /\ pc' = "done" /\ UNCHANGED error
    /\ UNCHANGED <<args, env, mainLocals, calls, created, realVars>>

RunNext ==
    \/ MainHost \/ MainPaths \/ Push \/ PullProbe \/ PullLocalParent
    \/ DryRun \/ RunSpawn
    \/ ChildWriteStdout \/ ChildWriteStderr \/ ChildExit
    \/ StdoutReader \/ StderrReader
    \/ RunWait \/ RunJoinStdout \/ RunJoinStderr \/ RunFinish \/ RunStatus

(***************************************************************************)
(* The specifications.  Each runs one component; the others stay idle.     *)
(***************************************************************************)
vars == <<pathSt, epSt, treeSt, quoteSt, progSt, sumSt, runVars>>

PathIdle == pathSt = [pc |-> "idle"]
EpIdle == epSt = [pc |-> "idle"]
TreeIdle == treeSt = [pc |-> "idle"]
QuoteIdle == quoteSt = [pc |-> "idle"]
ProgIdle == progSt = [pc |-> "idle"]
SumIdle == sumSt = [pc |-> "idle"]
OthersIdle == QuoteIdle /\ ProgIdle /\ SumIdle

\* No run of the program: every variable of a run keeps one value.
RunIdle ==
    /\ args = [path |-> <<>>, host |-> None, pull |-> FALSE, dry_run |-> FALSE,
               no_perms |-> FALSE]
    /\ env = [home |-> None, cwd |-> None, ssh_config |-> Ok(<<>>),
              local_is_file |-> FALSE]
    /\ pc = "idle"
    /\ error = None
    /\ host = <<>> /\ local_path = <<>> /\ remote_path = <<>> /\ is_file = FALSE
    /\ calls = <<>> /\ created = <<>> /\ printed = <<>>
    /\ child = NoChild
    /\ stdoutPipe = NoPipe /\ stderrPipe = NoPipe
    /\ stdout_handle = "none" /\ stderr_handle = "none"
    /\ overall = NoBar /\ current = NoBar
    /\ stats_lines = <<>>

\* A run of the program, from main.
Init == RunInit /\ PathIdle /\ EpIdle /\ TreeIdle /\ OthersIdle
Spec == Init /\ [][RunNext]_vars

\* The path mapping of main, on its own.
PathStart == PathInit /\ EpIdle /\ TreeIdle /\ OthersIdle /\ RunIdle
PathSpec == PathStart /\ [][PathNext]_vars

\* sync_endpoints, on its own.
EpStart == EpInit /\ PathIdle /\ TreeIdle /\ OthersIdle /\ RunIdle
EpSpec == EpStart /\ [][EpNext]_vars

\* render_tree, on its own.
TreeStart == TreeInit /\ PathIdle /\ EpIdle /\ OthersIdle /\ RunIdle
TreeSpec == TreeStart /\ [][TreeNext]_vars

\* A real push of the directory b under the home directory, from the call
\* of run_rsync on, with the scheduling of its threads: each reader thread
\* and the main thread keep taking the steps they can take.  The child is
\* under no such obligation.
RealRunInit ==
    /\ args = [path |-> <<"b">>, host |-> Some(<<"h">>), pull |-> FALSE,
               dry_run |-> FALSE, no_perms |-> FALSE]
    /\ env = [home |-> Some(HomeA), cwd |-> Some(HomeA), ssh_config |-> Ok(<<>>),
              local_is_file |-> FALSE]
    /\ pc = "transfer"
    /\ error = None
    /\ host = <<"h">>
    /\ local_path = <<"/", "a", "/", "b">>
    /\ remote_path = <<"~", "/", "b">>
    /\ is_file = FALSE
    /\ calls = <<[program |-> "ssh", args |-> ssh_args,
                  operands |-> <<(<<"h">>), MkdirCommand(<<"~">>)>>,
                  outcome |-> Ok(0)]>>
    /\ created = <<>> /\ printed = <<>>
    /\ child = NoChild
    /\ stdoutPipe = NoPipe /\ stderrPipe = NoPipe
    /\ stdout_handle = "none" /\ stderr_handle = "none"
    /\ overall = NoBar /\ current = NoBar
    /\ stats_lines = <<>>

RealRunNext ==
    \/ RunSpawn
    \/ ChildWriteStdout \/ ChildWriteStderr \/ ChildExit
    \/ StdoutReader \/ StderrReader
    \/ RunWait \/ RunJoinStdout \/ RunJoinStderr \/ RunFinish \/ RunStatus

RealRunStart == RealRunInit /\ PathIdle /\ EpIdle /\ TreeIdle /\ OthersIdle
\* The steps the main thread takes in run_rsync after the spawn (lines
\* 382-396) when it is scheduled: the wait returns once the child has exited.
MainStep ==
    \/ child.state = "exited" /\ RunWait
    \/ RunJoinStdout \/ RunJoinStderr \/ RunFinish \/ RunStatus

RealRunSpec ==
    /\ RealRunStart /\ [][RealRunNext]_vars
    /\ WF_vars(StdoutReader) /\ WF_vars(StderrReader) /\ WF_vars(MainStep)

\* print_summary, on its own.
SumStart ==
    SumInit /\ PathIdle /\ EpIdle /\ TreeIdle /\ QuoteIdle /\ ProgIdle /\ RunIdle
SummarySpec == SumStart /\ [][SumNext]_vars

\* The position set from the lines of the diagnostics channel, on its own.
ProgStart ==
    ProgInit /\ PathIdle /\ EpIdle /\ TreeIdle /\ QuoteIdle /\ SumIdle /\ RunIdle
ProgSpec == ProgStart /\ [][ProgNext]_vars

\* remote_shell_path, on its own.
QuoteStart ==
    QuoteInit /\ PathIdle /\ EpIdle /\ TreeIdle /\ ProgIdle /\ SumIdle /\ RunIdle
QuoteSpec == QuoteStart /\ [][QuoteNext]_vars

(***************************************************************************)
(* Claims about the path mapper, checked under PathSpec.                   *)
(***************************************************************************)
\* clean_path on lists of components: ".." drops the last emitted component
\* unless there is none or it is the root, "." is dropped.
RECURSIVE RefClean(_, _)
RefClean(comps, stack) ==
    IF comps = <<>> THEN stack
    ELSE LET c == comps[1]
             next == IF c = ParentDir
                     THEN IF stack # <<>> /\ stack[Len(stack)] # RootDir
                          THEN SubSeq(stack, 1, Len(stack) - 1)
                          ELSE stack
                     ELSE IF c = CurDir THEN stack
                     ELSE Append(stack, c)
         IN  RefClean(Tail(comps), next)

PathResolved == pathSt.pc \in {"home", "mapped"}

\* C7: for every absolute path handed to clean_path, the result has no "."
\* and no ".." component, each ".." has removed the most recently emitted
\* component, a ".." at the root is a no-op (the result is always a path,
\* never an error), and /a/../../b resolves to /b.
C7_CleanPathNoDots ==
    PathResolved =>
        LET out == Components(pathSt.local)
        IN  /\ HasRoot(pathSt.absolute)
            /\ \A i \in 1..Len(out) : out[i] \notin {CurDir, ParentDir}
            /\ out = RefClean(Components(pathSt.absolute), <<>>)
            /\ HasRoot(pathSt.local)
            /\ (pathSt.absolute = PopPastRootExample
                    => pathSt.local = <<"/", "b">>)

C7_Witness ==
    /\ pathSt.pc = "mapped"
    /\ pathSt.absolute = PopPastRootExample
    /\ pathSt.local = <<"/", "b">>

UnderHome ==
    /\ pathSt.pc = "mapped"
    /\ IsSome(StripPrefix(pathSt.local, Unwrap(pathSt.home)))

\* C8: when the resolved path is the home directory or lies under it, its
\* remote form starts with "~", and expanding and normalizing that remote
\* form again gives the resolved path back.
C8_RoundTrip ==
    UnderHome =>
        /\ pathSt.remote # <<>> /\ pathSt.remote[1] = "~"
        /\ LET again == expand_path(pathSt.remote, pathSt.home)
           IN  /\ IsOk(again)
               /\ normalize_path(again.ok, pathSt.cwd) = Ok(pathSt.local)

C8_Witness ==
    /\ UnderHome
    /\ pathSt.raw = <<".", "/", "b">>
    /\ pathSt.home = Some(<<"/", "a">>)
    /\ pathSt.local = <<"/", "a", "/", "b">>
    /\ pathSt.remote = <<"~", "/", "b">>

\* C9: map_to_remote gives ~/<relative suffix> for a strict descendant of
\* home, the bare "~" for home itself, and the path unchanged otherwise.
C9_ToRemoteBareTilde ==
    pathSt.pc = "mapped" =>
        LET home == Unwrap(pathSt.home)
            rel == StripPrefix(pathSt.local, home)
        IN  /\ (IsSome(rel) /\ Unwrap(rel) # <<>>
                    => pathSt.remote = <<"~", "/">> \o Unwrap(rel))
            /\ (pathSt.local = home => pathSt.remote = <<"~">>)
            /\ (~IsSome(rel) => pathSt.remote = pathSt.local)

(***************************************************************************)
(* Claims about the endpoint builder, checked under EpSpec.                *)
(***************************************************************************)
EpExample ==
    /\ epSt.pc = "built"
    /\ epSt.host = <<"h">>
    /\ epSt.local_path = <<"/", "l", "o", "c", "a", "l", "/", "x">>
    /\ epSt.remote_path = <<"~", "/", "x">>
    /\ ~epSt.is_file

\* C5: the remote side is host ":" remote path, the local side is the local
\* path, "/" is appended to both exactly when the object is not a file, and
\* the pair is (local, remote) for a push and (remote, local) for a pull;
\* ("h", "/local/x", "~/x", false, false) gives ("/local/x/", "h:~/x/").
C5_Endpoints ==
    epSt.pc = "built" =>
        LET slash == IF epSt.is_file THEN <<>> ELSE <<"/">>
            localSide == epSt.local_path \o slash
            remoteSide == epSt.host \o <<":">> \o epSt.remote_path \o slash
        IN  /\ epSt.pulling => epSt.src = remoteSide /\ epSt.dst = localSide
            /\ ~epSt.pulling => epSt.src = localSide /\ epSt.dst = remoteSide
            /\ EpExample /\ ~epSt.pulling =>
                   /\ epSt.src = <<"/", "l", "o", "c", "a", "l", "/", "x", "/">>
                   /\ epSt.dst = <<"h", ":", "~", "/", "x", "/">>
            /\ EpExample /\ epSt.pulling =>
                   /\ epSt.src = <<"h", ":", "~", "/", "x", "/">>
                   /\ epSt.dst = <<"/", "l", "o", "c", "a", "l", "/", "x", "/">>

C5_Witness ==
    /\ EpExample
    /\ epSt.pulling
    /\ epSt.src = <<"h", ":", "~", "/", "x", "/">>

(***************************************************************************)
(* Claims about the tree renderer, checked under TreeSpec.                 *)
(***************************************************************************)
\* At every node the names of the children strictly increase.
RECURSIVE SortedUnique(_)
SortedUnique(children) ==
    /\ \A i \in 1..(Len(children) - 1) :
           TextLess(children[i][1], children[i + 1][1])
    /\ \A i \in 1..Len(children) : SortedUnique(children[i][2])

\* The tree of a set of lines, inserted in an order the set alone fixes.
RECURSIVE BuildFromSet(_)
BuildFromSet(S) ==
    IF S = {} THEN <<>>
    ELSE LET l == CHOOSE x \in S : TRUE
         IN  TreeInsertLine(BuildFromSet(S \ {l}), l)

LineSet(text) == {TextLines(text)[i] : i \in 1..Len(TextLines(text))}

\* C10: the rendered text is that of the set of the lines fed, whatever their
\* order and repetition; at every moment no node has two children of one
\* name and the children of every node are in lexical order.
C10_TreeOrderIndependent ==
    treeSt.pc # "idle" =>
        /\ SortedUnique(treeSt.root)
        /\ treeSt.pc = "done" =>
               treeSt.tree = RenderRoot(BuildFromSet(LineSet(treeSt.output)))

\* b, a/b, b again: a repeated line, fed against the lexical order.
C10_Witness ==
    /\ treeSt.pc = "done"
    /\ TextLines(treeSt.output) =
           << <<"f", "|", "b", "|", "1">>,
              <<"f", "|", "a", "/", "b", "|", "2">>,
              <<"f", "|", "b", "|", "1">> >>
    /\ treeSt.tree =
           <<"|", "-", "-", " ", "a", "\n",
             "|", " ", " ", "+", "-", "-", " ", "b", "\n",
             "+", "-", "-", " ", "b">>

\* The path field of a line that has one.
PathField(line) == SplitChar(line, "|")[2]

\* The names a path spells: its non-empty pieces between slashes.
NamesOf(path) == SelectSeq(SplitChar(path, "/"), LAMBDA part : part # <<>>)

\* k times "./".
RECURSIVE DotSlashes(_)
DotSlashes(k) == IF k = 0 THEN <<>> ELSE <<".", "/">> \o DotSlashes(k - 1)

\* The path with every leading "./" removed.
AfterDotSlashes(path) ==
    LET k == CHOOSE n \in 0..Len(path) :
                 /\ StartsWith(path, DotSlashes(n))
                 /\ ~StartsWith(path, DotSlashes(n + 1))
    IN  Drop(path, 2 * k)

\* The tree holds the chain of nodes that names spells from its root.
RECURSIVE HoldsChain(_, _)
HoldsChain(children, names) ==
    \/ names = <<>>
    \/ /\ MapFind(children, names[1]) # 0
       /\ HoldsChain(children[MapFind(children, names[1])][2], Tail(names))

\* The chains of names of all the nodes of a tree.
RECURSIVE ChainsOf(_)
ChainsOf(children) ==
    UNION { {<<children[i][1]>>}
              \cup {<<children[i][1]>> \o c : c \in ChainsOf(children[i][2])}
            : i \in 1..Len(children) }

IsPrefixOf(a, b) == Len(a) <= Len(b) /\ SubSeq(b, 1, Len(a)) = a

\* The lines the loop of render_tree has taken so far.
LinesTaken ==
    LET all == TextLines(treeSt.output)
    IN  SubSeq(all, 1, Len(all) - Len(treeSt.rest))

\* The condition of the claim as stated: one leading "./" is stripped.
StatedContributes(line) ==
    /\ line # <<>>
    /\ Len(SplitChar(line, "|")) >= 2
    /\ LET field == PathField(line)
           path == IF StartsWith(field, <<".", "/">>) THEN Drop(field, 2) ELSE field
       IN  path # <<>> /\ path[1] # "."

\* The condition the code applies: every leading "./" is stripped, and the
\* path must spell at least one name.
Contributes(line) ==
    /\ line # <<>>
    /\ Len(SplitChar(line, "|")) >= 2
    /\ LET path == AfterDotSlashes(PathField(line))
       IN  path # <<>> /\ path[1] # "." /\ NamesOf(path) # <<>>

\* C11 as stated: a line contributes nodes exactly when it is non-empty, has
\* at least two |-separated fields and its path field, after a leading "./"
\* is stripped, is non-empty and does not start with "."; so the tree has a
\* node exactly when such a line has been taken.
C11_LineContributesAsStated ==
    treeSt.pc = "lines" =>
        (treeSt.root # <<>>
            <=> \E i \in 1..Len(LinesTaken) : StatedContributes(LinesTaken[i]))

\* C11, amended: a line contributes nodes exactly when it is non-empty, has
\* at least two |-separated fields and its path field, after every leading
\* "./" is stripped, does not start with "." and spells at least one name:
\* the nodes of every such line taken are in the tree, every node of the
\* tree comes from such a line, and the other lines (malformed, empty path,
\* hidden entry) leave the tree as it is; render then ends with a text.
C11_LineContributes ==
    treeSt.pc # "idle" =>
        /\ \A i \in 1..Len(LinesTaken) :
               Contributes(LinesTaken[i]) =>
                   HoldsChain(treeSt.root,
                              NamesOf(AfterDotSlashes(PathField(LinesTaken[i]))))
        /\ \A c \in ChainsOf(treeSt.root) :
               \E i \in 1..Len(LinesTaken) :
                   /\ Contributes(LinesTaken[i])
                   /\ IsPrefixOf(c, NamesOf(AfterDotSlashes(PathField(LinesTaken[i]))))
        /\ (treeSt.root # <<>>
               <=> \E i \in 1..Len(LinesTaken) : Contributes(LinesTaken[i]))
        /\ treeSt.pc = "done" => treeSt.rest = <<>> /\ treeSt.tree \in Seq(STRING)

\* A hidden entry, a line of one field and a visible entry have been taken:
\* only the visible entry is in the tree.
C11_Witness ==
    /\ treeSt.pc = "done"
    /\ LinesTaken = << <<"f", "|", ".", "D", "S", "_", "S", "t", "o", "r", "e", "|", "9">>, <<"x">>, <<"f", "|", ".", "/", "c", "/", "a", "|", "1">> >>
    /\ treeSt.root = << <<<<"c">>, << <<<<"a">>, <<>>>> >> >> >>

\* The places of the nodes of a tree, each the list of the positions taken
\* from the root down, a node before the nodes below it and siblings in the
\* order of the map.
RECURSIVE PlacesOf(_)
PlacesOf(children) ==
    Concat([i \in 1..Len(children) |->
               << <<i>> >> \o
               [k \in 1..Len(PlacesOf(children[i][2])) |->
                   <<i>> \o PlacesOf(children[i][2])[k]]])

\* The children map in which the node at a place sits.
RECURSIVE SiblingsAt(_, _)
SiblingsAt(children, place) ==
    IF Len(place) = 1 THEN children
    ELSE SiblingsAt(children[place[1]][2], Tail(place))

NameAt(children, place) == SiblingsAt(children, place)[place[Len(place)]][1]
IsLastAt(children, place) == place[Len(place)] = Len(SiblingsAt(children, place))

\* The line the claim gives the node at a place: three characters for each
\* ancestor (blanks under a last sibling, a bar and blanks otherwise), the
\* glyph, a space, the name.
StatedLine(children, place) ==
    Concat([j \in 1..(Len(place) - 1) |->
               IF IsLastAt(children, SubSeq(place, 1, j))
               THEN <<" ", " ", " ">> ELSE <<"|", " ", " ">>])
    \o (IF IsLastAt(children, place) THEN <<"+", "-", "-">> ELSE <<"|", "-", "-">>)
    \o <<" ">> \o NameAt(children, place)

\* C12: the rendered text has one line per node of the tree, in depth-first
\* order, each prefix + glyph + space + name with "+--" exactly for a last
\* sibling and the prefix grown by three characters per level; foo.txt,
\* dir/, dir/bar.txt give dir, bar.txt under it, then foo.txt; no input
\* gives the empty text.
C12_RenderLines ==
    treeSt.pc = "done" =>
        LET places == PlacesOf(treeSt.root)
            lines == SplitChar(treeSt.tree, "\n")
        IN  /\ places = <<>> => treeSt.tree = <<>>
            /\ places # <<>> =>
                   /\ Len(lines) = Len(places)
                   /\ \A k \in 1..Len(places) :
                          lines[k] = StatedLine(treeSt.root, places[k])
            /\ treeSt.output = <<>> => treeSt.tree = <<>>
            /\ treeSt.output = TextOf(TreeExample) =>
                   treeSt.tree = <<"|", "-", "-", " ", "d", "i", "r", "\n",
                       "|", " ", " ", "+", "-", "-", " ", "b", "a", "r", ".", "t", "x", "t", "\n",
                       "+", "-", "-", " ", "f", "o", "o", ".", "t", "x", "t">>

C12_Witness ==
    /\ treeSt.pc = "done"
    /\ treeSt.output = TextOf(TreeExample)
    /\ SplitChar(treeSt.tree, "\n") =
           << <<"|", "-", "-", " ", "d", "i", "r">>,
              <<"|", " ", " ", "+", "-", "-", " ", "b", "a", "r", ".", "t", "x", "t">>,
              <<"+", "-", "-", " ", "f", "o", "o", ".", "t", "x", "t">> >>

(***************************************************************************)
(* Claims about the remote path quoting, checked under QuoteSpec.          *)
(***************************************************************************)
\* The reference to the HOME variable, as one element of a shell word.
HomeRef == "$HOME"

NameChars ==
    {"0", "1", "2", "3", "4", "5", "6", "7", "8", "9", "_", "D", "S",
     "a", "b", "c", "d", "e", "f", "g", "h", "i", "j", "k", "l", "m", "n",
     "o", "p", "q", "r", "s", "t", "u", "v", "w", "x", "y", "z"}

\* What a POSIX shell makes of a text as one word: Some(the word) when the
\* text is one word whose quotes are all closed and in which nothing but
\* $HOME is expanded, None otherwise.  mode is "plain", "single" or "double".
RECURSIVE ShellWord(_, _, _)
ShellWord(text, mode, acc) ==
    IF text = <<>> THEN (IF mode = "plain" THEN Some(acc) ELSE None)
    ELSE LET c == text[1]
         IN  CASE mode = "plain" ->
                    IF c = "'" THEN ShellWord(Tail(text), "single", acc)
                    ELSE IF c = "\"" THEN ShellWord(Tail(text), "double", acc)
                    ELSE IF c = "\\"
                    THEN IF Len(text) < 2 THEN None
                         ELSE ShellWord(Drop(text, 2), "plain", Append(acc, text[2]))
                    ELSE IF c \in {" ", "$", "~", Backquote} THEN None
                    ELSE ShellWord(Tail(text), "plain", Append(acc, c))
               [] mode = "single" ->
                    IF c = "'" THEN ShellWord(Tail(text), "plain", acc)
                    ELSE ShellWord(Tail(text), "single", Append(acc, c))
               [] mode = "double" ->
                    IF c = "\"" THEN ShellWord(Tail(text), "plain", acc)
                    ELSE IF c = "\\"
                    THEN IF Len(text) < 2 THEN None
                         ELSE IF text[2] \in {"\\", "\"", "$", Backquote}
                         THEN ShellWord(Drop(text, 2), "double", Append(acc, text[2]))
                         ELSE ShellWord(Tail(text), "double", Append(acc, c))
                    ELSE IF c = "$"
                    THEN IF /\ StartsWith(text, <<"$", "H", "O", "M", "E">>)
                            /\ (Len(text) = 5 \/ text[6] \notin NameChars)
                         THEN ShellWord(Drop(text, 5), "double", Append(acc, HomeRef))
                         ELSE None
                    ELSE IF c = Backquote THEN None
                    ELSE ShellWord(Tail(text), "double", Append(acc, c))

\* The double-quoted form of the claim for a path "~" + rest.
StatedDouble(rest) ==
    <<"\"", "$", "H", "O", "M", "E">>
    \o Concat([i \in 1..Len(rest) |->
                  IF rest[i] \in {"\\", "\"", "$", Backquote}
                  THEN <<"\\", rest[i]>> ELSE <<rest[i]>>])
    \o <<"\"">>

\* The single-quoted form of the claim.
StatedSingle(path) ==
    <<"'">>
    \o Concat([i \in 1..Len(path) |->
                  IF path[i] = "'" THEN <<"'", "\\", "'", "'">> ELSE <<path[i]>>])
    \o <<"'">>

\* C13 as stated: every path that begins with "~" gets the double-quoted
\* form that starts with $HOME, with every backslash, double quote, dollar
\* sign and backquote of the rest behind a backslash; every other path is
\* wrapped in single quotes, each single quote of it replaced by '\''.
C13_QuotingAsStated ==
    quoteSt.pc = "quoted" =>
        IF quoteSt.path # <<>> /\ quoteSt.path[1] = "~"
        THEN quoteSt.quoted = StatedDouble(Tail(quoteSt.path))
        ELSE quoteSt.quoted = StatedSingle(quoteSt.path)

\* C13, amended: the path "~" and every path that begins with "~/" get the
\* double-quoted form that starts with $HOME, with every backslash, double
\* quote, dollar sign and backquote of the rest behind a backslash; every
\* other path, one that begins with "~" and goes on with another character
\* included, is wrapped in single quotes, each single quote of it replaced
\* by '\''.  Either way a shell reads the result as one word, the path
\* itself with $HOME for its leading "~": no character of the path ends
\* the quoting.
C13_Quoting ==
    quoteSt.pc = "quoted" =>
        IF quoteSt.path = <<"~">> \/ StartsWith(quoteSt.path, <<"~", "/">>)
        THEN /\ quoteSt.quoted = StatedDouble(Tail(quoteSt.path))
             /\ ShellWord(quoteSt.quoted, "plain", <<>>)
                    = Some(<<HomeRef>> \o Tail(quoteSt.path))
        ELSE /\ quoteSt.quoted = StatedSingle(quoteSt.path)
             /\ ShellWord(quoteSt.quoted, "plain", <<>>) = Some(quoteSt.path)

\* A path under "~" with a dollar sign in it.
C13_Witness ==
    /\ quoteSt.pc = "quoted"
    /\ quoteSt.path = <<"~", "/", "$">>
    /\ quoteSt.quoted = <<"\"", "$", "H", "O", "M", "E", "/", "\\", "$", "\"">>

(***************************************************************************)
(* Claims about the summary, checked under SummarySpec.                    *)
(***************************************************************************)
\* The text of a sent line between the prefix and the first " bytes".
SentNumber(line) ==
    LET after == Drop(line, Len(SentPrefix))
        at == {i \in 1..(Len(after) - Len(BytesMarker) + 1) :
                  SubSeq(after, i, i + Len(BytesMarker) - 1) = BytesMarker}
    IN  IF at = {} THEN None
        ELSE Some(SubSeq(after, 1, (CHOOSE i \in at : \A j \in at : i <= j) - 1))

\* The text of a total line between the prefix and the first two blanks,
\* or the end of the line.
TotalNumber(line) ==
    LET after == Drop(line, Len(TotalPrefix))
        at == {i \in 1..(Len(after) - 1) : SubSeq(after, i, i + 1) = <<" ", " ">>}
    IN  IF at = {} THEN after
        ELSE SubSeq(after, 1, (CHOOSE i \in at : \A j \in at : i <= j) - 1)

\* A number written with digits and thousands separators, and its value.
IsSeparated(text) ==
    /\ \E i \in 1..Len(text) : IsDigit(text[i])
    /\ \A i \in 1..Len(text) : IsDigit(text[i]) \/ text[i] = ","
SeparatedValue(text) == DigitsValue(SelectSeq(text, IsDigit), 0)

SummaryEntries(label) ==
    {i \in 1..Len(sumSt.printed) : sumSt.printed[i].label = label}
SentLines == {i \in 1..Len(sumSt.stats) : StartsWith(sumSt.stats[i], SentPrefix)}
TotalLines == {i \in 1..Len(sumSt.stats) : StartsWith(sumSt.stats[i], TotalPrefix)}

\* C14: the printed summary starts with its heading and ends with the
\* duration; its sent entry is the number before " bytes" of an accumulated
\* line that starts with "sent ", its total entry the number of a line that
\* starts with "total size is ", each read with the thousands separators
\* removed ("2,327" gives 2327); a field with no such line is not printed,
\* and the one line of a prefix, when its number is well formed, is printed.
C14_SummaryFields ==
    sumSt.pc = "printed" =>
        LET out == sumSt.printed
        IN  /\ out[1].label = "Summary:" /\ out[Len(out)].label = "  duration:"
            /\ Cardinality(SummaryEntries("  duration:")) = 1
            /\ Cardinality(SummaryEntries("  sent:")) <= 1
            /\ Cardinality(SummaryEntries("  total size:")) <= 1
            /\ \A i \in SummaryEntries("  sent:"), j \in SummaryEntries("  total size:") :
                   i < j
            /\ SentLines = {} => SummaryEntries("  sent:") = {}
            /\ TotalLines = {} => SummaryEntries("  total size:") = {}
            /\ \A i \in SummaryEntries("  sent:") :
                   \E k \in SentLines :
                       /\ IsSome(SentNumber(sumSt.stats[k]))
                       /\ IsSeparated(Unwrap(SentNumber(sumSt.stats[k])))
                       /\ out[i].bytes
                              = Some(SeparatedValue(Unwrap(SentNumber(sumSt.stats[k]))))
            /\ \A i \in SummaryEntries("  total size:") :
                   \E k \in TotalLines :
                       /\ IsSeparated(TotalNumber(sumSt.stats[k]))
                       /\ out[i].bytes = Some(SeparatedValue(TotalNumber(sumSt.stats[k])))
            /\ \A k \in SentLines :
                   /\ SentLines = {k}
                   /\ IsSome(SentNumber(sumSt.stats[k]))
                   /\ IsSeparated(Unwrap(SentNumber(sumSt.stats[k])))
                   => \E i \in SummaryEntries("  sent:") :
                          out[i].bytes
                              = Some(SeparatedValue(Unwrap(SentNumber(sumSt.stats[k]))))
            /\ \A k \in TotalLines :
                   TotalLines = {k} /\ IsSeparated(TotalNumber(sumSt.stats[k]))
                   => \E i \in SummaryEntries("  total size:") :
                          out[i].bytes = Some(SeparatedValue(TotalNumber(sumSt.stats[k])))
            /\ sumSt.stats = << <<"s", "e", "n", "t", " ", "2", ",", "3", "2", "7", " ", "b", "y", "t", "e", "s", " ", " ", "r", "e", "c", "e", "i", "v", "e", "d", " ", "2", "7", "4", " ", "b", "y", "t", "e", "s">> >> =>
                   out = <<[label |-> "Summary:", bytes |-> None],
                           [label |-> "  sent:", bytes |-> Some(2327)],
                           [label |-> "  duration:", bytes |-> None]>>

\* The sent line of the documentation alone: sent is printed, total is not.
C14_Witness ==
    /\ sumSt.pc = "printed"
    /\ sumSt.stats = << <<"s", "e", "n", "t", " ", "2", ",", "3", "2", "7", " ", "b", "y", "t", "e", "s", " ", " ", "r", "e", "c", "e", "i", "v", "e", "d", " ", "2", "7", "4", " ", "b", "y", "t", "e", "s">> >>
    /\ sumSt.printed = <<[label |-> "Summary:", bytes |-> None],
                         [label |-> "  sent:", bytes |-> Some(2327)],
                         [label |-> "  duration:", bytes |-> None]>>

\* A text that reads as a number once its thousands separators are dropped:
\* digits after an optional "+"; and the number.
Unseparated(text) == SelectSeq(text, LAMBDA c : c # ",")
ReadsAsNumber(text) ==
    LET t == Unseparated(text)
        d == IF t # <<>> /\ t[1] = "+" THEN Tail(t) ELSE t
    IN  d # <<>> /\ Len(d) <= 9 /\ \A i \in 1..Len(d) : IsDigit(d[i])
NumberRead(text) == DigitsValue(SelectSeq(text, IsDigit), 0)

\* The sent lines that have the " bytes" marker.
MarkedSentLines == {k \in SentLines : IsSome(SentNumber(sumSt.stats[k]))}

Last(S) == CHOOSE k \in S : \A j \in S : j <= k

\* The value the summary prints for a label, if it prints one.
PrintedField(label) ==
    IF SummaryEntries(label) = {} THEN None
    ELSE sumSt.printed[CHOOSE i \in SummaryEntries(label) : TRUE].bytes

\* C22: the sent field of the summary is that of the last accumulated
\* "sent " line that has the " bytes" marker, and the total field that of the
\* last "total size is " line, whatever the lines before it: the number of
\* that line when it reads as one, and no field when it does not, even if an
\* earlier line of the prefix had a number; a "sent " line without the marker
\* changes nothing.
C22_LastLineDecides ==
    sumSt.pc = "printed" =>
        /\ PrintedField("  sent:") =
               IF MarkedSentLines = {} THEN None
               ELSE LET number == Unwrap(SentNumber(sumSt.stats[Last(MarkedSentLines)]))
                    IN  IF ReadsAsNumber(number) THEN Some(NumberRead(number))
                        ELSE None
        /\ PrintedField("  total size:") =
               IF TotalLines = {} THEN None
               ELSE LET number == TotalNumber(sumSt.stats[Last(TotalLines)])
                    IN  IF ReadsAsNumber(number) THEN Some(NumberRead(number))
                        ELSE None

\* A sent line with a number, then one whose number does not read: no sent
\* field is printed.
C22_Witness ==
    /\ sumSt.pc = "printed"
    /\ Len(sumSt.stats) = 2 /\ MarkedSentLines = {1, 2}
    /\ ReadsAsNumber(Unwrap(SentNumber(sumSt.stats[1])))
    /\ ~ReadsAsNumber(Unwrap(SentNumber(sumSt.stats[2])))
    /\ SummaryEntries("  sent:") = {}

\* A sent line with a number, then one without the marker: the number of the
\* first is printed.
C22_WitnessKept ==
    /\ sumSt.pc = "printed"
    /\ Len(sumSt.stats) = 2 /\ SentLines = {1, 2} /\ MarkedSentLines = {1}
    /\ PrintedField("  sent:") = Some(9)

\* A total line with a number, then one whose number does not read.
C22_WitnessTotal ==
    /\ sumSt.pc = "printed"
    /\ Len(sumSt.stats) = 2 /\ TotalLines = {1, 2}
    /\ ReadsAsNumber(TotalNumber(sumSt.stats[1]))
    /\ SummaryEntries("  total size:") = {}

(***************************************************************************)
(* Claims about a run of the program, checked under Spec.                  *)
(***************************************************************************)
Has(list, x) == \E i \in 1..Len(list) : list[i] = x

IsMkdir(call) == call.program = "ssh" /\ StartsWith(call.operands[2], MkdirPrefix)
IsProbe(call) == call.program = "ssh" /\ StartsWith(call.operands[2], TestPrefix)
IsRsync(call) == call.program = "rsync"
ExitedNonZero(call) == IsOk(call.outcome) /\ call.outcome.ok # 0

Running == pc # "idle"

\* C1: in a push run the remote mkdir -p is issued before any rsync
\* invocation, and when it exits non-zero the run is in error and no rsync
\* invocation has been issued.
C1_MkdirBeforeTransfer ==
    Running /\ ~args.pull =>
        /\ \A i \in 1..Len(calls) :
               IsRsync(calls[i]) => \E j \in 1..(i - 1) : IsMkdir(calls[j])
        /\ \A j \in 1..Len(calls) :
               IsMkdir(calls[j]) /\ ExitedNonZero(calls[j]) =>
                   /\ pc = "error"
                   /\ \A i \in 1..Len(calls) : ~IsRsync(calls[i])

C1_Witness ==
    /\ ~args.pull
    /\ Len(calls) = 1 /\ IsMkdir(calls[1]) /\ ExitedNonZero(calls[1])
    /\ pc = "error"
    /\ error = Some("failed to create remote directory")

ProbeIssued == Running /\ args.pull /\ calls # <<>>

TransferErrors ==
    {"failed to run rsync --dry-run", "rsync dry run failed",
     "failed to spawn rsync", "failed to wait on rsync", "rsync failed"}

\* C2: in a pull run, a probe that cannot be run or exits non-zero classifies
\* the object as a directory; whatever the probe's outcome the run goes on
\* to the local parent, and an error of the run comes from the local parent
\* or from the transfer invocation, which follows the parent's creation.
C2_ProbeNeverAborts ==
    ProbeIssued =>
        /\ IsProbe(calls[1])
        /\ calls[1].outcome # Ok(0) => ~is_file
        /\ calls[1].outcome = Ok(0) => is_file
        /\ Len(calls) = 1 /\ created = <<>> =>
               \/ pc = "pull_parent"
               \/ /\ pc = "error"
                  /\ error \in {Some("unable to resolve local parent"),
                                Some("failed to create local parent")}
        /\ Len(calls) = 1 /\ created # <<>> => pc = "transfer"
        /\ Len(calls) > 1 =>
               /\ created # <<>>
               /\ IsRsync(calls[2])
               /\ pc = "error" => error \in {Some(m) : m \in TransferErrors}

C2_Witness ==
    /\ ProbeIssued
    /\ calls[1].outcome = SpawnError
    /\ ~is_file
    /\ Len(calls) = 2 /\ IsRsync(calls[2])
    /\ pc = "done"

\* C3: a transfer invocation that exits non-zero is fatal.  For a dry run
\* the run is in error and nothing was printed (no tree, no size line); for
\* a real run no summary is ever printed, the run never ends well, and when
\* the failure is reported both progress indicators have been finished.
C3_TransferFailureFatal ==
    Running =>
        \A i \in 1..Len(calls) :
            IsRsync(calls[i]) /\ ExitedNonZero(calls[i]) =>
                /\ printed = <<>>
                /\ pc # "done"
                /\ args.dry_run => pc = "error" /\ error = Some("rsync dry run failed")
                /\ ~args.dry_run /\ pc = "error" /\ error = Some("rsync failed") =>
                       overall.finished /\ current.finished
                /\ ~args.dry_run /\ pc = "error" =>
                       error \in {Some("rsync failed"), Some("failed to wait on rsync")}

C3_Witness ==
    /\ ~args.dry_run
    /\ calls # <<>> /\ IsRsync(calls[Len(calls)]) /\ ExitedNonZero(calls[Len(calls)])
    /\ pc = "error" /\ error = Some("rsync failed")
    /\ overall.finished /\ current.finished
    /\ stats_lines # <<>>
    /\ printed = <<>>

ConfigurationError ==
    \/ ~IsSome(env.home)
    \/ ~IsSome(args.host) /\ env.ssh_config = Ok(<<>>)

\* C4: when the home directory cannot be resolved, or no host is given and
\* the host list is empty, the run never gets past the resolution of the
\* host and the paths except into its error, and no remote command (ssh
\* probe, ssh mkdir, rsync) is ever issued.
C4_ConfigErrorBeforeRemote ==
    Running /\ ConfigurationError =>
        /\ calls = <<>>
        /\ pc \in {"host", "paths", "error"}
        /\ pc = "error" <=> IsSome(error)

C4_Witness ==
    /\ ~IsSome(args.host) /\ env.ssh_config = Ok(<<>>) /\ IsSome(env.home)
    /\ pc = "error"
    /\ error = Some("no hosts found in ~/.ssh/config and no host provided")
    /\ calls = <<>>

SshClause ==
    "ssh -o ControlMaster=auto -o ControlPersist=60s -o ControlPath=~/.ssh/cm-%r@%h:%p"

Baseline(list) ==
    /\ Has(list, "-avz") /\ Has(list, "--stats")
    /\ \E i \in 1..(Len(list) - 1) : list[i] = "-e" /\ list[i + 1] = SshClause
    /\ Has(list, "--exclude=.git/") /\ Has(list, "--exclude=node_modules/")
    /\ Has(list, "--exclude=target/") /\ Has(list, "--exclude=.DS_Store")

DryRunOptions == {"--dry-run", "--itemize-changes", "--out-format=%i|%n|%l"}
RealRunOptions == {"--partial", "--inplace", "--info=progress2", "--out-format=%n"}

\* C6: the arguments of a dry-run invocation hold the dry-run flag, the
\* itemized-change flag and the %i|%n|%l format and none of the real-run
\* options; those of a real invocation hold the four real-run options and
\* none of the dry-run ones; both hold the baseline, and --no-perms is
\* there, as one more argument, exactly when the toggle is set.
C6_InvocationArguments ==
    Running =>
        \A i \in 1..Len(calls) :
            IsRsync(calls[i]) =>
                LET list == calls[i].args
                IN  /\ Baseline(list)
                    /\ args.dry_run =>
                           /\ \A o \in DryRunOptions : Has(list, o)
                           /\ \A o \in RealRunOptions \cup {"-P"} : ~Has(list, o)
                           /\ Len(list) = 11 + (IF args.no_perms THEN 1 ELSE 0)
                    /\ ~args.dry_run =>
                           /\ \A o \in RealRunOptions : Has(list, o)
                           /\ \A o \in DryRunOptions : ~Has(list, o)
                           /\ Len(list) = 13 + (IF args.no_perms THEN 1 ELSE 0)
                    /\ Has(list, "--no-perms") <=> args.no_perms
                    /\ Cardinality({k \in 1..Len(list) : list[k] = "--no-perms"}) <= 1

C6_Witness ==
    /\ args.dry_run /\ args.no_perms
    /\ calls # <<>> /\ IsRsync(calls[Len(calls)])
    /\ Has(calls[Len(calls)].args, "--dry-run")
    /\ Has(calls[Len(calls)].args, "--no-perms")
    /\ pc = "done"

\* The lines of the diagnostics channel the accumulator takes.
Accepted(lines) == SelectSeq(lines, IsStatsLine)

\* The summaries the run has printed.
Summaries == SelectSeq(printed, LAMBDA p : p.kind = "summary")

RealRun == Running /\ ~args.dry_run

\* C15: in a real run, once main is past the two joins the child has exited
\* and both readers have ended; the summary is that of the accumulator,
\* which from then on holds, and keeps holding, every stats line the child
\* wrote on the diagnostics channel: nothing is appended after the read.
C15_AccumulatorReadAfterJoins ==
    RealRun =>
        /\ pc \in {"finish", "status", "done"} \/ Summaries # <<>> =>
               /\ child.state = "exited"
               /\ stdout_handle = "done" /\ stderr_handle = "done"
               /\ stats_lines = Accepted(child.err)
        /\ Summaries # <<>> =>
               /\ pc = "done"
               /\ Summaries = <<[kind |-> "summary",
                                 lines |-> print_summary(stats_lines)]>>
        /\ pc = "done" => Summaries # <<>>

\* A run that ends with both stats lines read and summed up.
C15_Witness ==
    /\ RealRun /\ pc = "done"
    /\ Len(stats_lines) = 2 /\ stats_lines = child.err
    /\ Len(Summaries) = 1
    /\ Len(Summaries[1].lines) = 4

(***************************************************************************)
(* Claims about the threads of a real run, checked under RealRunSpec.      *)
(***************************************************************************)
\* C16: each reader ends once its own channel is closed and drained,
\* whatever the other reader does; a child that waits on a full channel
\* finds room again as long as the run lives; and once the child has
\* exited, main reaches the end of the run, with the summary printed, or
\* its error.
C16_ReadersTerminate ==
    /\ (stdoutPipe.closed ~> (stdout_handle = "done" \/ ~Alive))
    /\ (stderrPipe.closed ~> (stderr_handle = "done" \/ ~Alive))
    /\ (child.state = "running" /\ Len(stdoutPipe.buf) >= PipeCap
           ~> (Len(stdoutPipe.buf) < PipeCap \/ ~Alive))
    /\ (child.state = "running" /\ Len(stderrPipe.buf) >= PipeCap
           ~> (Len(stderrPipe.buf) < PipeCap \/ ~Alive))
    /\ (child.state = "exited"
           ~> (pc = "done" /\ Summaries # <<>>) \/ pc = "error")

\* The stdout reader has ended while the stderr reader still has a line to
\* take, and the run lives.
C16_Witness ==
    /\ pc = "join_stdout"
    /\ child.state = "exited"
    /\ stdout_handle = "done"
    /\ stderr_handle = "running" /\ stderrPipe.buf # <<>>

\* The run has ended well after the child wrote on both channels.
C16_WitnessDone ==
    /\ pc = "done" /\ Summaries # <<>>
    /\ child.out # <<>> /\ child.err # <<>>

(***************************************************************************)
(* What each reader changes, checked under RealRunSpec.                    *)
(***************************************************************************)
\* The lines each reader has taken from its channel so far.
OutRead == SubSeq(child.out, 1, Len(child.out) - Len(stdoutPipe.buf))
ErrRead == SubSeq(child.err, 1, Len(child.err) - Len(stderrPipe.buf))

BeginsWith(line, text) ==
    /\ Len(line) >= Len(text)
    /\ \A i \in 1..Len(text) : line[i] = text[i]

\* The subsequence of the lines that begin with one of the two prefixes.
RECURSIVE StatsOf(_)
StatsOf(lines) ==
    IF lines = <<>> THEN <<>>
    ELSE (IF BeginsWith(lines[1], SentPrefix) \/ BeginsWith(lines[1], TotalPrefix)
          THEN <<lines[1]>> ELSE <<>>) \o StatsOf(Tail(lines))

\* The position after the lines: that of the last line that gives one.
RECURSIVE PositionAfter(_)
PositionAfter(lines) ==
    IF lines = <<>> THEN 0
    ELSE IF IsSome(parse_progress_percent(lines[Len(lines)]))
    THEN Unwrap(parse_progress_percent(lines[Len(lines)]))
    ELSE PositionAfter(SubSeq(lines, 1, Len(lines) - 1))

NonEmpty(lines) == SelectSeq(lines, LAMBDA l : l # <<>>)
NonBlank(lines) == SelectSeq(lines, LAMBDA l : \E i \in 1..Len(l) : l[i] # " ")

\* The readers are at work: the indicators are not finished yet.
ReadersAtWork == RealRun /\ child.state # "none" /\ ~current.finished

\* What both statements of C17 share: the accumulator and the position are
\* determined by the diagnostics lines read, whatever was read from the
\* progress channel and in whatever interleaving.
AccumulatorAndPosition ==
    /\ stats_lines = StatsOf(ErrRead)
    /\ overall.pos = PositionAfter(ErrRead)

\* C17 as stated: the current-item display shows the last progress-channel
\* line read that is not the empty line.
C17_ReaderEffectsAsStated ==
    ReadersAtWork =>
        /\ AccumulatorAndPosition
        /\ NonEmpty(OutRead) # <<>> =>
               current.msg = NonEmpty(OutRead)[Len(NonEmpty(OutRead))]

\* C17: while the readers are at work, the accumulator holds the lines read
\* from the diagnostics channel that begin with "sent " or "total size is ",
\* as they came and in their order; the accumulator and the position depend
\* on nothing read from the progress channel; and the current-item display
\* depends on nothing read from the diagnostics channel: it shows the last
\* progress-channel line read that has a character other than whitespace,
\* and the initial text when there is none.
C17_ReaderEffects ==
    ReadersAtWork =>
        /\ AccumulatorAndPosition
        /\ current.msg =
               IF NonBlank(OutRead) # <<>>
               THEN NonBlank(OutRead)[Len(NonBlank(OutRead))]
               ELSE <<"W", "a", "i", "t", "i", "n", "g", " ", "f", "o", "r", " ",
                      "f", "i", "l", "e", "s", ".", ".", ".">>

\* A line, then a line of one space, have been read from the progress
\* channel: the display still shows the first.
C17_Witness ==
    /\ ReadersAtWork
    /\ OutRead = << <<"a">>, <<" ">> >>
    /\ current.msg = <<"a">>

\* A stats line read from the diagnostics channel after one that is not.
C17_WitnessStats ==
    /\ ReadersAtWork
    /\ Len(ErrRead) = 2 /\ Len(stats_lines) = 1 /\ stats_lines[1] = ErrRead[2]

(***************************************************************************)
(* Claims about the overall position, checked under ProgSpec.              *)
(***************************************************************************)
\* The whitespace-delimited words of a text, read character by character.
RECURSIVE WordsOf(_, _)
WordsOf(s, word) ==
    IF s = <<>> THEN (IF word = <<>> THEN <<>> ELSE <<word>>)
    ELSE IF s[1] = " "
    THEN (IF word = <<>> THEN <<>> ELSE <<word>>) \o WordsOf(Tail(s), <<>>)
    ELSE WordsOf(Tail(s), Append(word, s[1]))

Unsigned(t) == IF t # <<>> /\ t[1] \in {"+", "-"} THEN Tail(t) ELSE t

\* A text that reads as an integer: digits after an optional sign.
IsIntegerText(t) ==
    /\ Unsigned(t) # <<>>
    /\ \A i \in 1..Len(Unsigned(t)) : IsDigit(Unsigned(t)[i])

IntegerOf(t) ==
    IF t[1] = "-" THEN 0 - DigitsValue(Unsigned(t), 0) ELSE DigitsValue(Unsigned(t), 0)

\* A text that reads as an integer of 0..255 without a minus sign.
IsByteText(t) ==
    /\ IsIntegerText(t) /\ t[1] # "-"
    /\ Len(Unsigned(t)) <= 9 /\ IntegerOf(t) <= U8Max

\* The position a line leaves, given the one before it: the integer before
\* the "%" of the first word that ends in "%" after a text that Reads.
StatedPosition(line, before, Reads(_)) ==
    LET words == WordsOf(line, <<>>)
        Number(w) == SubSeq(w, 1, Len(w) - 1)
        hits == {i \in 1..Len(words) :
                    words[i][Len(words[i])] = "%" /\ Reads(Number(words[i]))}
    IN  IF hits = {} THEN before
        ELSE IntegerOf(Number(words[CHOOSE i \in hits : \A j \in hits : i <= j]))

\* C18 as stated: each line sets the position to the integer before "%" of
\* its first word that ends in "%" after a text that reads as an integer;
\* a line without such a word leaves the position as it was.
C18_PositionSetAsStated ==
    progSt.pc = "lines" /\ progSt.taken # <<>> =>
        progSt.pos = StatedPosition(progSt.taken[Len(progSt.taken)],
                                    progSt.before, IsIntegerText)

\* C18: each line sets the position to the integer before "%" of its first
\* word that ends in "%" after a text that reads as an integer of 0..255
\* without a minus sign; a line without such a word leaves the position as
\* it was.
C18_PositionSet ==
    progSt.pc = "lines" /\ progSt.taken # <<>> =>
        progSt.pos = StatedPosition(progSt.taken[Len(progSt.taken)],
                                    progSt.before, IsByteText)

\* The second word of the line is the first that gives a value.
C18_Witness ==
    /\ progSt.pc = "lines"
    /\ progSt.taken = << <<"1", "0", "0", "%">>, <<"x", "%", " ", "5", "%", " ", "2", "%">> >>
    /\ progSt.before = 100 /\ progSt.pos = 5

\* A line without a value leaves the position of the line before it.
C18_WitnessUnchanged ==
    /\ progSt.pc = "lines"
    /\ progSt.taken = << <<"1", "0", "0", "%">>, <<"2", "5", "6", "%">> >>
    /\ progSt.pos = 100

\* C19: after any sequence of lines of the diagnostics channel, the overall
\* position is in 0..100.
C19_PositionInRange ==
    progSt.pc = "lines" => progSt.pos \in 0..OverallLen

(***************************************************************************)
(* No command is issued twice, checked under Spec.                         *)
(***************************************************************************)
Issued(Is(_)) == Cardinality({i \in 1..Len(calls) : Is(calls[i])})

IsDryRunCall(call) == IsRsync(call) /\ Has(call.args, "--dry-run")
IsRealCall(call) == IsRsync(call) /\ ~Has(call.args, "--dry-run")

\* The transfer step has been taken.
PastTransfer ==
    pc \in {"wait", "join_stdout", "join_stderr", "finish", "status", "done"}

\* A command whose failure is fatal has failed: the directory creation or the
\* transfer could not be run, or exited non-zero.
FailedFatally(call) ==
    (IsMkdir(call) \/ IsRsync(call)) /\ (~IsOk(call.outcome) \/ ExitedNonZero(call))

AtMostOnce ==
    /\ Issued(IsProbe) <= 1 /\ Issued(IsMkdir) <= 1 /\ Issued(IsRsync) <= 1
    /\ \A i \in 1..Len(calls) :
           /\ IsDryRunCall(calls[i]) => args.dry_run
           /\ IsRealCall(calls[i]) => ~args.dry_run
           /\ FailedFatally(calls[i]) => i = Len(calls) /\ pc # "done"
    /\ PastTransfer => Issued(IsRsync) = 1
    /\ pc = "error" <=> error # None

\* C20: in any run the probe, the directory creation and the transfer are
\* each issued at most once; a run past the transfer step has issued exactly
\* one transfer, the dry-run one or the real one as the arguments say; a
\* command that failed fatally is the last one issued; and once the run is in
\* error it stays in that error, issues no command, creates no directory and
\* prints nothing (a child left behind may still write to its pipes).
C20_NoRetry ==
    /\ [](Running => AtMostOnce)
    /\ [][pc = "error" => UNCHANGED <<pc, error, calls, created, printed>>]_vars

\* A pull whose probe and real transfer were each issued once, the transfer
\* failing: the run is in error with two commands issued.
C20_Witness ==
    /\ Running /\ pc = "error" /\ ~args.dry_run
    /\ Len(calls) = 2 /\ IsProbe(calls[1]) /\ IsRealCall(calls[2])
    /\ FailedFatally(calls[2])

(***************************************************************************)
(* The directories a dry run makes, checked under Spec.                    *)
(***************************************************************************)
\* The remote mkdir -p of the parent of the remote path has been issued
\* before the command at index i, and has succeeded.
RemoteParentMadeBefore(i) ==
    \E j \in 1..(i - 1) :
        /\ IsMkdir(calls[j])
        /\ calls[j].operands =
               <<host, MkdirPrefix \o remote_shell_path(parent_of_remote(remote_path))>>
        /\ calls[j].outcome = Ok(0)

\* The parent of the local path has been created.
LocalParentMade ==
    /\ IsSome(PathParent(local_path))
    /\ created = <<Unwrap(PathParent(local_path))>>

\* C21: in a dry run, when the dry-run transfer is issued the directory has
\* been made already: for a push the remote mkdir -p of the remote parent
\* was issued before it and succeeded, for a pull the local parent directory
\* was created; so it is with every dry run that has printed its preview.
C21_DryRunMakesDirectory ==
    Running /\ args.dry_run =>
        /\ \A i \in 1..Len(calls) :
               IsDryRunCall(calls[i]) =>
                   IF args.pull THEN LocalParentMade ELSE RemoteParentMadeBefore(i)
        /\ printed # <<>> =>
               /\ \E i \in 1..Len(calls) : IsDryRunCall(calls[i])
               /\ IF args.pull THEN LocalParentMade
                  ELSE \E j \in 1..Len(calls) : IsMkdir(calls[j])

\* A dry-run push that has printed its preview after the remote mkdir -p.
C21_Witness ==
    /\ Running /\ args.dry_run /\ ~args.pull /\ pc = "done"
    /\ printed # <<>>
    /\ Len(calls) = 2 /\ IsMkdir(calls[1]) /\ IsDryRunCall(calls[2])

\* A dry-run pull that has printed its preview after creating the local
\* parent.
C21_WitnessPull ==
    /\ Running /\ args.dry_run /\ args.pull /\ pc = "done"
    /\ printed # <<>> /\ created # <<>>
    /\ Len(calls) = 2 /\ IsProbe(calls[1]) /\ IsDryRunCall(calls[2])
====
